---------------------------- MODULE Spec2Model ----------------------------
(***************************************************************************)
(* Model of the actionsum detection subsystem: the hybrid detector         *)
(* (pkg/integrations/hybrid), the process detector and its CPU sampler     *)
(* (pkg/integrations/process) and the X11 / Wayland window strategies,     *)
(* with the configuration (internal/config) and the tracker service        *)
(* (internal/tracker) that polls the detector.                             *)
(*                                                                         *)
(* Specifications.  Spec: the detector under a free-running poller.        *)
(* ConfigSpec: the configuration on its own.  TrackerSpec: the tracker     *)
(* loop driving the detector.  SamplerSpec: the life cycle of the sampler  *)
(* goroutine against Close and the poll thread.  RankSpec: the process     *)
(* detector alone over tables of aged records and samples.  StrategySpec:  *)
(* the detector in sessions with several compositors or missing tools.     *)
(* SamplerFairSpec: SamplerSpec under fair scheduling.  ParseSpec: the two *)
(* parseWMClass functions applied to one line.                             *)
(*                                                                         *)
(* Conventions.  Scores and confidences are kept in tenths (0.3 is 3,      *)
(* 1.0 is 10, 10.0 is 100) so that the float sums of the code are exact    *)
(* integer sums here.  Time is a clock in whole seconds.  The outcome of   *)
(* every external command (xdotool, xprop, ps, swaymsg, gdbus, ...) is an  *)
(* input drawn with \E from a small set; a command whose binary is not     *)
(* installed always fails.                                                 *)
(***************************************************************************)
EXTENDS Integers, Sequences, FiniteSets, TLC

VARIABLES
    env,              \* the environment the detector was constructed in
    wd,               \* hybrid.Detector.windowDetector (kind "none" is nil)
    knownProcesses,   \* process.Detector.knownProcesses: pid -> lastSeen
    activePIDs,       \* InputMonitor.activePIDs: pid -> time of last CPU sample
    running,          \* InputMonitor.running
    now,              \* wall clock, seconds
    pc,               \* position of the polling thread inside the hybrid detector
    calls,            \* collaborators invoked by the GetActiveApp call in progress
    windowErr,        \* local windowErr of hybrid GetActiveApp ("" is nil)
    appInfo,          \* AppInfo being built / returned by GetActiveApp
    retErr,           \* error returned by GetActiveApp ("" is nil)
    procRes,          \* what process.Detector.GetActiveApp returned in this call
    reWin,            \* what the enhancement re-query of the window returned
    firstWin,         \* what the window strategy returned to step 1 of the call
    logged,           \* log lines written by the call in progress
    lastSuccessfulMethod,
    idleIn,           \* external facts observed by the GetIdleInfo call
    idleOut,          \* IdleInfo returned by GetIdleInfo
    cfg,              \* config.Config.Tracker
    cfgCall,          \* the last call made on the configuration and what it returned
    tpc,              \* position of the goroutine running tracker Service.Start
    svcRunning,       \* tracker Service.running
    svcStopChan,      \* tracker Service.stopChan: "open" or "closed"
    ctxDone,          \* the context given to Start was cancelled
    startRet,         \* what Start returned ("running" while it has not)
    stopCalls,        \* Stop calls made so far: how each one ended
    idleInfo,         \* trackOnce: the IdleInfo of the poll cycle
    cycle,            \* the poll cycle in progress or just finished: the calls it
                      \* made, its error, the rows it wrote to the repository
    stopChan,         \* InputMonitor.stopChan: "open" or "closed"
    closes,           \* times close(stopChan) was executed
    mpc,              \* position of the goroutine running InputMonitor.monitor
    closeCalls,       \* hybrid Close calls made so far: what each one returned
    reader,           \* GetRecentlyActivePIDs: the poll thread is ranging over activePIDs
    sample,           \* updateActivityFromCPU: the busy PIDs ps printed, being written
    tickedAfterClose, \* the sampler ran a tick or an update after a Close call returned
    parse             \* a WM_CLASS line given to the two parseWMClass functions and
                      \* what each returned

detVars == << env, wd, knownProcesses, activePIDs, running, now, pc, calls,
              windowErr, appInfo, retErr, procRes, reWin, firstWin, logged,
              lastSuccessfulMethod, idleIn, idleOut >>

cfgVars == << cfg, cfgCall >>

trkVars == << tpc, svcRunning, svcStopChan, ctxDone, startRet, stopCalls,
              idleInfo, cycle >>

imVars == << stopChan, closes, mpc, closeCalls, reader, sample, tickedAfterClose >>

\* the state outside the detector's polling path
hostVars == << cfgVars, trkVars, imVars, parse >>

vars == << detVars, hostVars >>

-----------------------------------------------------------------------------
(* Bounds of the model *)

MaxTime == 1

-----------------------------------------------------------------------------
(* Values *)

Tools == {"xdotool", "wmctrl", "xprop", "xprintidle", "swaymsg", "hyprctl", "gdbus", "qdbus"}

Compositors == {"sway", "hyprland", "wayfire", "river", "gnome", "kde"}

\* names and titles as external commands print them ("" is empty output)
RawNames  == {"", "Unknown", "firefox", "konsole"}
RawTitles == {"", "main.go"}

NoWindow == [ok |-> FALSE, reason |-> "", AppName |-> "", WindowTitle |-> "",
             ProcessName |-> "", DisplayServer |-> ""]

WinErr(reason) == [NoWindow EXCEPT !.reason = reason]

WinOk(app, title, pname, ds) ==
    [ok |-> TRUE, reason |-> "", AppName |-> app, WindowTitle |-> title,
     ProcessName |-> pname, DisplayServer |-> ds]

\* exec.Command(tool, ...) succeeds only if the binary exists and, when it
\* does, according to the external outcome
Runs(e, tool, outcome) == tool \in e.tools /\ outcome

-----------------------------------------------------------------------------
(* Environments *)

Env(wl, dpy, tools, comps) ==
    [wayland |-> wl, display |-> dpy, tools |-> tools, compositors |-> comps]

\* how the tracker was started: from a shell inside a terminal emulator, or
\* as a daemon whose parent is init
Launches == {"terminal", "daemon"}

\* wayland: WAYLAND_DISPLAY set or XDG_SESSION_TYPE=wayland; display: DISPLAY set
Sessions ==
    { Env(FALSE, FALSE, {}, {}),
      Env(FALSE, TRUE, {"xdotool", "wmctrl", "xprop", "xprintidle"}, {}),
      Env(FALSE, TRUE, {"wmctrl"}, {}),
      Env(FALSE, TRUE, {}, {}),
      Env(TRUE, FALSE, {"swaymsg"}, {"sway"}),
      Env(TRUE, TRUE, {"swaymsg", "hyprctl"}, {"hyprland"}),
      Env(TRUE, TRUE, {"gdbus", "xprop"}, {"gnome"}),
      Env(TRUE, TRUE, {"qdbus"}, {"kde"}),
      Env(TRUE, TRUE, {"xdotool", "xprintidle"}, {}),
      Env(TRUE, FALSE, {"swaymsg"}, {"wayfire"}),
      Env(TRUE, FALSE, {"swaymsg"}, {}) }

\* inputDevices: /proc/bus/input/devices can be read
Envs == { [wayland |-> s.wayland, display |-> s.display, tools |-> s.tools,
           compositors |-> s.compositors, inputDevices |-> i, launch |-> l] :
          s \in Sessions, i \in BOOLEAN, l \in Launches }

-----------------------------------------------------------------------------
(* X11 strategy *)

NoDetector == [kind |-> "none", hasXdotool |-> FALSE, hasWmctrl |-> FALSE,
               compositor |-> "", hasSwaymsg |-> FALSE, hasGdbus |-> FALSE]

X11NewDetector(e) ==
    [NoDetector EXCEPT !.kind = "x11",
                       !.hasXdotool = "xdotool" \in e.tools,
                       !.hasWmctrl = "wmctrl" \in e.tools]

X11IsAvailable(d) == d.hasXdotool \/ d.hasWmctrl

\* x: external outcomes of one query:
\*   ok1 .. ok4     success of the first .. fourth command or lookup
\*   name1, name2   names printed (window class, process name)
\*   title          window title printed
getFocusedWindowXdotool(e, x) ==
    IF ~Runs(e, "xdotool", x.ok1) THEN WinErr("failed to get active x11 window ID")
    ELSE IF ~Runs(e, "xdotool", x.ok2) THEN WinErr("failed to get window name")
    ELSE LET class == IF Runs(e, "xprop", TRUE) THEN x.name1 ELSE ""
             app0 == IF class # "" THEN class ELSE "Unknown"
             processName == IF Runs(e, "xdotool", x.ok3) /\ x.ok4 THEN x.name2 ELSE ""
             appName == IF app0 = "Unknown" /\ processName # ""
                        THEN processName ELSE app0
         IN  WinOk(appName, x.title, processName, "x11")

getFocusedWindowWmctrl(e, x) ==
    IF ~Runs(e, "wmctrl", x.ok1) THEN WinErr("failed to execute wmctrl")
    ELSE IF ~Runs(e, "xdotool", x.ok2) THEN WinErr("failed to get active window")
    ELSE IF ~x.ok3 THEN WinErr("could not find active window")
    ELSE LET processName == IF x.ok4 THEN x.name2 ELSE "Unknown"
         IN  WinOk(processName, x.title, processName, "x11")

\* the detection tools (of xdotool and wmctrl) one GetFocusedWindow call executes
X11ToolsInvoked(d, e, x) ==
    IF d.hasXdotool THEN {"xdotool"}
    ELSE IF d.hasWmctrl
    THEN {"wmctrl"} \cup (IF Runs(e, "wmctrl", x.ok1) THEN {"xdotool"} ELSE {})
    ELSE {}

X11GetFocusedWindow(d, e, x) ==
    IF d.hasXdotool THEN getFocusedWindowXdotool(e, x)
    ELSE IF d.hasWmctrl THEN getFocusedWindowWmctrl(e, x)
    ELSE WinErr("no X11 detection tool available")

-----------------------------------------------------------------------------
(* Wayland strategy *)

\* detectCompositor ranges over a Go map: the iteration order is unspecified,
\* so any compositor whose process is alive can be the one that is detected
DetectedCompositors(e) ==
    IF e.compositors = {} THEN {"unknown"} ELSE e.compositors

WaylandNewDetector(e, c) ==
    [NoDetector EXCEPT !.kind = "wayland",
                       !.hasSwaymsg = "swaymsg" \in e.tools,
                       !.hasGdbus = "gdbus" \in e.tools,
                       !.compositor = c]

\* mutant: an undetected compositor is treated like sway
WaylandIsAvailableUnknownAsSway(d) ==
    CASE d.compositor \in {"sway", "hyprland", "unknown"} -> d.hasSwaymsg
      [] d.compositor = "gnome" -> d.hasGdbus
      [] d.compositor = "kde" -> TRUE
      [] OTHER -> FALSE

WaylandIsAvailable(d) ==
    CASE d.compositor \in {"sway", "hyprland"} -> d.hasSwaymsg
      [] d.compositor = "gnome" -> d.hasGdbus
      [] d.compositor = "kde" -> TRUE
      [] OTHER -> FALSE

\* parseSwayTree / parseHyprlandWindow after the fields were extracted
parseTiling(x) ==
    LET appName == IF x.name1 = "" THEN "Unknown" ELSE x.name1
        windowTitle == IF x.title = "" THEN "Unknown" ELSE x.title
        processName == IF x.ok3 /\ x.ok4 /\ x.name2 # "" THEN x.name2 ELSE appName
    IN  WinOk(appName, windowTitle, processName, "wayland")

getFocusedWindowSway(e, x) ==
    IF ~Runs(e, "swaymsg", x.ok1) THEN WinErr("failed to execute swaymsg")
    ELSE parseTiling(x)

getFocusedWindowHyprland(e, x) ==
    IF ~Runs(e, "hyprctl", x.ok1) THEN WinErr("failed to execute hyprctl")
    ELSE parseTiling(x)

getFocusedWindowXWayland(e, x) ==
    IF ~e.display THEN WinErr("DISPLAY environment variable not set")
    ELSE IF ~Runs(e, "xprop", x.ok3) THEN WinErr("failed to get active window from root")
    ELSE IF ~x.ok4 THEN WinErr("no active window found")
    ELSE LET windowTitle == IF x.title = "" THEN "Unknown" ELSE x.title
             appName == IF x.name2 = "" THEN "Unknown" ELSE x.name2
         IN  WinOk(appName, windowTitle, appName, "wayland")

\* mutant: without a bridge answer an "Unknown" window is returned
getFocusedWindowGnomeLenient(e, x) ==
    LET appName == IF x.name1 # "" /\ x.name1 # "Unknown" THEN x.name1 ELSE "Unknown"
        windowTitle == IF x.title # "" /\ x.title # "Unknown" THEN x.title ELSE "Unknown"
    IN  IF Runs(e, "gdbus", x.ok1) /\ x.ok2 /\ appName # "Unknown"
        THEN WinOk(appName, windowTitle, appName, "wayland")
        ELSE LET xw == getFocusedWindowXWayland(e, x)
             IN  IF "xprop" \in e.tools /\ xw.ok THEN xw
                 ELSE WinOk("Unknown", "Unknown", "Unknown", "wayland")

getFocusedWindowGnome(e, x) ==
    LET appName == IF x.name1 # "" /\ x.name1 # "Unknown" THEN x.name1 ELSE "Unknown"
        windowTitle == IF x.title # "" /\ x.title # "Unknown" THEN x.title ELSE "Unknown"
    IN  IF Runs(e, "gdbus", x.ok1) /\ x.ok2 /\ appName # "Unknown"
        THEN WinOk(appName, windowTitle, appName, "wayland")
        ELSE IF "xprop" \in e.tools
        THEN LET xw == getFocusedWindowXWayland(e, x)
             IN  IF xw.ok THEN xw
                 ELSE WinErr("GNOME window detection failed: xprop failed")
        ELSE WinErr("GNOME window detection failed: xprop unavailable")

getFocusedWindowKDE(e, x) ==
    IF ~Runs(e, "qdbus", x.ok1) THEN WinErr("failed to query KDE window")
    ELSE LET appName == IF x.name1 # "" THEN x.name1 ELSE "Unknown"
             windowTitle == IF x.title # "" THEN x.title ELSE "Unknown"
         IN  WinOk(appName, windowTitle, appName, "wayland")

\* the external commands one GetFocusedWindow call executes first
WaylandToolsInvoked(d, e, x) ==
    CASE d.compositor = "sway" -> {"swaymsg"}
      [] d.compositor = "hyprland" -> {"hyprctl"}
      [] d.compositor = "gnome" -> {"gdbus"}
      [] d.compositor = "kde" -> {"qdbus"}
      [] OTHER -> {}

WaylandGetFocusedWindow(d, e, x) ==
    CASE d.compositor = "sway" -> getFocusedWindowSway(e, x)
      [] d.compositor = "hyprland" -> getFocusedWindowHyprland(e, x)
      [] d.compositor = "gnome" -> getFocusedWindowGnome(e, x)
      [] d.compositor = "kde" -> getFocusedWindowKDE(e, x)
      [] OTHER -> WinErr("unsupported wayland compositor")

-----------------------------------------------------------------------------
(* window.Detector interface, dispatched on the concrete strategy *)

WindowIsAvailable(d) ==
    CASE d.kind = "x11" -> X11IsAvailable(d)
      [] d.kind = "wayland" -> WaylandIsAvailable(d)
      [] OTHER -> FALSE

WindowGetFocusedWindow(d, e, x) ==
    CASE d.kind = "x11" -> X11GetFocusedWindow(d, e, x)
      [] d.kind = "wayland" -> WaylandGetFocusedWindow(d, e, x)
      [] OTHER -> WinErr("no window detector")

WindowQueries ==
    [ok1 : BOOLEAN, ok2 : BOOLEAN, ok3 : BOOLEAN, ok4 : BOOLEAN,
     name1 : RawNames, name2 : RawNames, title : RawTitles]

\* hybrid detectWindowDetector: the strategies NewDetector can end up with
\* (one per compositor the Wayland constructor may detect)
detectWindowDetector(e) ==
    LET x11 == IF e.display /\ X11IsAvailable(X11NewDetector(e))
               THEN X11NewDetector(e) ELSE NoDetector
    IN  IF e.wayland
        THEN { IF WaylandIsAvailable(WaylandNewDetector(e, c))
               THEN WaylandNewDetector(e, c) ELSE x11 :
               c \in DetectedCompositors(e) }
        ELSE {x11}

-----------------------------------------------------------------------------
(* Idle and lock probes *)

idleThreshold == 300

\* lock-screen processes that can be alive; each strategy greps for its own list
Lockers == {"swaylock", "i3lock", "kscreenlocker"}

X11Lockers == {"gnome-screensaver-dialog", "kscreenlocker", "i3lock", "slock",
               "xscreensaver", "xsecurelock"}

WaylandLockers == {"swaylock", "waylock", "gtklock", "hyprlock",
                   "gnome-screensaver-dialog"}

HybridLockers == {"swaylock", "waylock", "gtklock", "hyprlock",
                  "gnome-screensaver-dialog", "kscreenlocker"}

\* q: external facts seen by one idle probe:
\*   idleOk, idleMs   xprintidle succeeded and the milliseconds it printed
\*   lockers          lock-screen processes alive
\*   lockedHint       loginctl reports LockedHint=yes
\*   screenSaver      org.gnome.ScreenSaver.GetActive answers true
IdleQueries ==
    [idleOk : BOOLEAN, idleMs : {0, 300000, 300999, 301000},
     lockers : {{}} \cup {{l} : l \in Lockers},
     lockedHint : BOOLEAN, screenSaver : BOOLEAN]

IdleInfo(isIdle, isLocked, idleTime) ==
    [IsIdle |-> isIdle, IsLocked |-> isLocked, IdleTime |-> idleTime, err |-> ""]

X11getIdleTime(d, e, q) ==
    IF d.hasXdotool /\ Runs(e, "xprintidle", q.idleOk) THEN q.idleMs \div 1000 ELSE 0

X11isScreenLocked(q) == q.lockers \cap X11Lockers # {}

\* mutant: the threshold itself counts as idle
X11GetIdleInfoInclusive(d, e, q) ==
    LET idleTime == X11getIdleTime(d, e, q)
    IN  IdleInfo(idleTime >= idleThreshold, X11isScreenLocked(q), idleTime)

X11GetIdleInfo(d, e, q) ==
    LET idleTime == X11getIdleTime(d, e, q)
    IN  IdleInfo(idleTime > idleThreshold, X11isScreenLocked(q), idleTime)

\* mutant: the idle time of the query is used
WaylandgetIdleTimeMeasured(d, e, q) == q.idleMs \div 1000

WaylandgetIdleTime(d, e, q) == 0

WaylandisScreenLocked(e, q) ==
    \/ q.lockers \cap WaylandLockers # {}
    \/ Runs(e, "gdbus", q.screenSaver)

WaylandGetIdleInfo(d, e, q) ==
    LET idleTime == WaylandgetIdleTime(d, e, q)
    IN  IdleInfo(idleTime > idleThreshold, WaylandisScreenLocked(e, q), idleTime)

WindowGetIdleInfo(d, e, q) ==
    IF d.kind = "x11" THEN X11GetIdleInfo(d, e, q) ELSE WaylandGetIdleInfo(d, e, q)

HybridisScreenLocked(q) ==
    q.lockedHint \/ q.lockers \cap HybridLockers # {}

\* mutant: the window strategy's probe is never consulted
HybridGetIdleInfoSynthesized(d, e, q) == IdleInfo(FALSE, HybridisScreenLocked(q), 0)

\* hybrid.Detector.GetIdleInfo
HybridGetIdleInfo(d, e, q) ==
    IF d.kind # "none" /\ WindowIsAvailable(d) /\ WindowGetIdleInfo(d, e, q).err = ""
    THEN WindowGetIdleInfo(d, e, q)
    ELSE IdleInfo(FALSE, HybridisScreenLocked(q), 0)

-----------------------------------------------------------------------------
(* The OS process table *)

Self == 5

\* name: comm of /proc/pid/stat; mentions: the application and terminal names
\* that occur in /proc/pid/cmdline (strings.Contains); ppid: field 4 of stat
\* session: the process belongs to the user's login session and inherits its
\* environment
Proc(name, mentions, ppid, session) ==
    [name |-> name, mentions |-> mentions, ppid |-> ppid, session |-> session]

\* terminal: started from a shell in konsole; daemon: started by systemd;
\* script: started by `bash /usr/local/bin/firefox-watch.sh` outside the
\* session; tmux: started from a shell in a tmux pane (the tmux server names
\* itself "tmux: server" and is a child of systemd)
ProcTable(e) ==
    CASE e.launch = "terminal" ->
            (1 :> Proc("systemd", {}, 0, FALSE))
            @@ (2 :> Proc("firefox", {"firefox"}, 1, TRUE))
            @@ (3 :> Proc("konsole", {"konsole"}, 1, TRUE))
            @@ (4 :> Proc("bash", {}, 3, TRUE))
            @@ (Self :> Proc("actionsum", {}, 4, TRUE))
      [] e.launch = "script" ->
            (1 :> Proc("systemd", {}, 0, FALSE))
            @@ (2 :> Proc("firefox", {"firefox"}, 1, TRUE))
            @@ (4 :> Proc("bash", {"firefox"}, 1, FALSE))
            @@ (Self :> Proc("actionsum", {}, 4, FALSE))
      [] e.launch = "tmux" ->
            (1 :> Proc("systemd", {}, 0, FALSE))
            @@ (2 :> Proc("firefox", {"firefox"}, 1, TRUE))
            @@ (3 :> Proc("tmux: server", {}, 1, TRUE))
            @@ (4 :> Proc("bash", {}, 3, TRUE))
            @@ (Self :> Proc("actionsum", {}, 4, TRUE))
      [] OTHER ->
            (1 :> Proc("systemd", {}, 0, FALSE))
            @@ (2 :> Proc("firefox", {"firefox"}, 1, TRUE))
            @@ (Self :> Proc("actionsum", {}, 1, FALSE))

\* comm values that contain a space
spacedComms == {"tmux: server"}

\* ppid as findMyTerminal and isAncestorProcess read it: the fourth of
\* strings.Fields(stat), through strconv.Atoi.  stat is "pid (comm) state
\* ppid ...", so with a space in comm the fourth field is the state letter and
\* Atoi fails
statPPID(pt, pid) ==
    IF pt[pid].name \in spacedComms
    THEN [ok |-> FALSE, ppid |-> 0]
    ELSE [ok |-> TRUE, ppid |-> pt[pid].ppid]

\* processes that may or may not be alive at a scan; init, the ancestors of
\* the tracker and the tracker itself are alive at every scan
OptionalPIDs == {2}

\* PIDs the sampler can see using CPU
SampledPIDs == {2}

\* /proc/pid/environ holds DISPLAY= or WAYLAND_DISPLAY=
hasDisplayEnv(e, info) == info.session /\ (e.display \/ e.wayland)

-----------------------------------------------------------------------------
(* Process detector *)

guiApps ==
    {"firefox", "chrome", "chromium", "google-chrome", "brave", "opera", "vivaldi",
     "microsoft-edge", "code", "vscode", "sublime_text", "atom", "gedit", "vim",
     "nvim", "emacs", "gnome-terminal", "konsole", "terminator", "alacritty",
     "kitty", "wezterm", "tilix", "slack", "discord", "telegram", "signal", "zoom",
     "teams", "libreoffice", "soffice.bin", "writer", "calc", "impress", "vlc",
     "mpv", "spotify", "rhythmbox", "totem", "nautilus", "dolphin", "thunar",
     "nemo", "caja", "idea", "pycharm", "webstorm", "eclipse", "netbeans"}

terminals == {"terminator", "gnome-terminal", "konsole", "alacritty", "kitty",
              "tilix", "xterm", "rxvt"}

\* the first loop of isGUIApp: the name/command-line path
matchesGuiApps(info) == \E app \in guiApps : info.name = app \/ app \in info.mentions

isGUIApp(e, info) ==
    \/ matchesGuiApps(info)
    \/ hasDisplayEnv(e, info)

evictAfter == 5

\* mutant: no record is ever dropped
scanProcessesKeepAll(e, known, live, t) ==
    LET pt == ProcTable(e)
        gui == { p \in live : isGUIApp(e, pt[p]) }
    IN  [p \in (DOMAIN known) \cup gui |-> IF p \in gui THEN t ELSE known[p]]

\* scanProcesses with the processes in live readable: every one classified as
\* a GUI application is stamped t, then records older than 5 s are dropped
scanProcesses(e, known, live, t) ==
    LET pt == ProcTable(e)
        gui == { p \in live : isGUIApp(e, pt[p]) }
        stamped == [p \in (DOMAIN known) \cup gui |-> IF p \in gui THEN t ELSE known[p]]
        kept == { p \in DOMAIN stamped : ~(t - stamped[p] > evictAfter) }
    IN  [p \in kept |-> stamped[p]]

RECURSIVE terminalFrom(_, _)
terminalFrom(pt, pid) ==
    IF ~(pid > 1) \/ pid \notin DOMAIN pt \/ ~statPPID(pt, pid).ok THEN 0
    ELSE LET ppid == statPPID(pt, pid).ppid
         IN  IF ppid \in DOMAIN pt /\ pt[ppid].mentions \cap terminals # {}
             THEN ppid
             ELSE terminalFrom(pt, ppid)

findMyTerminal(e) == terminalFrom(ProcTable(e), Self)

RECURSIVE ancestorFrom(_, _, _)
ancestorFrom(pt, pid, checkPID) ==
    IF ~(pid > 1 /\ pid # checkPID) \/ pid \notin DOMAIN pt \/ ~statPPID(pt, pid).ok
    THEN FALSE
    ELSE LET ppid == statPPID(pt, pid).ppid
         IN  IF ppid = checkPID THEN TRUE ELSE ancestorFrom(pt, ppid, checkPID)

\* mutant: only the direct parent counts
isAncestorProcessDirect(e, checkPID) == ProcTable(e)[Self].ppid = checkPID

isAncestorProcess(e, checkPID) == ancestorFrom(ProcTable(e), Self, checkPID)

baseScore == 3
terminalBonus == 100
ancestorBonus == 50
activeNow == 5
activeRecent == 3
activeLately == 1
freshBonus == 2

\* mutant: a process without a sample counts as lately active
activityScoreUnsampled(active, pid, t) ==
    IF pid \notin DOMAIN active THEN activeLately
    ELSE LET timeSinceActive == t - active[pid]
         IN  IF timeSinceActive < 1 THEN activeNow
             ELSE IF timeSinceActive < 5 THEN activeRecent
             ELSE IF timeSinceActive < 30 THEN activeLately
             ELSE 0

\* mutant: the tier limits are inclusive
activityScoreInclusive(active, pid, t) ==
    IF pid \notin DOMAIN active THEN 0
    ELSE LET timeSinceActive == t - active[pid]
         IN  IF timeSinceActive <= 1 THEN activeNow
             ELSE IF timeSinceActive <= 5 THEN activeRecent
             ELSE IF timeSinceActive <= 30 THEN activeLately
             ELSE 0

activityScore(active, pid, t) ==
    IF pid \notin DOMAIN active THEN 0
    ELSE LET timeSinceActive == t - active[pid]
         IN  IF timeSinceActive < 1 THEN activeNow
             ELSE IF timeSinceActive < 5 THEN activeRecent
             ELSE IF timeSinceActive < 30 THEN activeLately
             ELSE 0

\* mutant: the terminal and ancestor bonuses are left out
scoreWithoutBonuses(e, known, active, pid, t) ==
    baseScore
    + activityScore(active, pid, t)
    + (IF t - known[pid] < 1 THEN freshBonus ELSE 0)

\* the score scoreProcesses gives one record of knownProcesses, in tenths
score(e, known, active, pid, t) ==
    baseScore
    + (IF pid = findMyTerminal(e) THEN terminalBonus ELSE 0)
    + (IF isAncestorProcess(e, pid) THEN ancestorBonus ELSE 0)
    + activityScore(active, pid, t)
    + (IF t - known[pid] < 1 THEN freshBonus ELSE 0)

\* mutant: candidates is not sorted
bestCandidatesUnsorted(e, known, active, t) == DOMAIN known

\* candidates[0] after the descending sort: some record of maximal score
\* (sort.Slice is not stable and the map is ranged in unspecified order)
bestCandidates(e, known, active, t) ==
    { p \in DOMAIN known :
        \A q \in DOMAIN known : score(e, known, active, q, t) <= score(e, known, active, p, t) }

NoApp == [AppName |-> "", WindowTitle |-> "", ProcessName |-> "", PID |-> 0,
          Confidence |-> 0, DetectionMethod |-> ""]

NoError == [msg |-> "", causes |-> {}]

\* an error value: its own message and the messages of the errors it wraps
Error(msg, causes) == [msg |-> msg, causes |-> causes]

AppOk(info) == [ok |-> TRUE, err |-> NoError, info |-> info]
AppErr(err) == [ok |-> FALSE, err |-> err, info |-> NoApp]
NoResult == [ok |-> FALSE, err |-> NoError, info |-> NoApp]

\* process.Detector.GetActiveApp once the scan has left the table known:
\* best is the record picked, title what getWindowTitleForPID printed
ProcessGetActiveApp(e, known, active, best, title, t) ==
    IF DOMAIN known = {} THEN AppErr(Error("no GUI applications detected", {}))
    ELSE AppOk([AppName |-> ProcTable(e)[best].name,
                WindowTitle |-> title,
                ProcessName |-> ProcTable(e)[best].name,
                PID |-> best,
                Confidence |-> score(e, known, active, best, t),
                DetectionMethod |-> "process-based"])

-----------------------------------------------------------------------------
(* CPU sampler (InputMonitor) *)

purgeAfter == 30

EmptyMap == [p \in {} |-> 0]

\* one tick of monitor(): ps printed the PIDs in busy with more than 0.5 % CPU
updateActivityFromCPU(active, psOk, busy, t) ==
    IF ~psOk THEN active
    ELSE LET marked == [p \in (DOMAIN active) \cup busy |->
                          IF p \in busy THEN t ELSE active[p]]
             kept == { p \in DOMAIN marked : ~(t - marked[p] > purgeAfter) }
         IN  [p \in kept |-> marked[p]]

-----------------------------------------------------------------------------
(* Configuration (internal/config).  A time.Duration is kept in seconds. *)

Default ==
    [PollInterval |-> 10, MinPollInterval |-> 10, MaxPollInterval |-> 300,
     IdleThreshold |-> 300]

\* values an environment variable can hold ("" is unset)
EnvValues == {"", "abc", "0", "-5", "5", "10", "30", "300", "301", "600",
              "36028797018963978", "36028797018964269"}

\* strconv.Atoi(str): err is nil and seconds > 0
atoiPositive(str) == str \notin {"", "abc", "0", "-5"}

\* time.Duration(seconds) * time.Second, in seconds.  The product is an
\* int64 of nanoseconds and wraps modulo 2^64: 2^55 * 10^9 is a multiple of
\* 2^64, so 2^55 + 10 seconds come out as 10 s and 2^55 + 301 as 301 s
secondsToDuration(str) ==
    CASE str = "5" -> 5
      [] str = "10" -> 10
      [] str = "30" -> 30
      [] str = "300" -> 300
      [] str = "301" -> 301
      [] str = "600" -> 600
      [] str = "-5" -> -5
      [] str = "36028797018963978" -> 10
      [] str = "36028797018964269" -> 301
      [] OTHER -> 0

\* LoadFromEnv, the tracker part: pollInterval and idleThreshold are the
\* values of ACTIONSUM_POLL_INTERVAL and ACTIONSUM_IDLE_THRESHOLD
LoadFromEnv(c, pollInterval, idleThresholdEnv) ==
    LET interval == secondsToDuration(pollInterval)
        c1 == IF /\ pollInterval # ""
                 /\ atoiPositive(pollInterval)
                 /\ interval >= c.MinPollInterval
                 /\ interval <= c.MaxPollInterval
              THEN [c EXCEPT !.PollInterval = interval]
              ELSE c
    IN  IF idleThresholdEnv # "" /\ atoiPositive(idleThresholdEnv)
        THEN [c1 EXCEPT !.IdleThreshold = secondsToDuration(idleThresholdEnv)]
        ELSE c1

\* config.New
ConfigNew(pollInterval, idleThresholdEnv) ==
    LoadFromEnv(Default, pollInterval, idleThresholdEnv)

\* mutant: the upper limit is not enforced
SetPollIntervalNoMax(c, interval) ==
    IF interval < c.MinPollInterval
    THEN [cfg |-> c, err |-> "poll interval cannot be less than minimum"]
    ELSE [cfg |-> [c EXCEPT !.PollInterval = interval], err |-> ""]

\* Config.SetPollInterval: the configuration afterwards and the error returned
SetPollInterval(c, interval) ==
    IF interval < c.MinPollInterval
    THEN [cfg |-> c, err |-> "poll interval cannot be less than minimum"]
    ELSE IF interval > c.MaxPollInterval
    THEN [cfg |-> c, err |-> "poll interval cannot be greater than maximum"]
    ELSE [cfg |-> [c EXCEPT !.PollInterval = interval], err |-> ""]

\* Config.GetPollIntervalSeconds
GetPollIntervalSeconds(c) == c.PollInterval

\* intervals a caller hands to SetPollInterval, in seconds
Intervals == {-5, 0, 5, 9, 10, 11, 30, 299, 300, 301, 3600}

NoCfgCall == [op |-> "", interval |-> 0, pollInterval |-> "", idleThreshold |-> "",
              before |-> Default, err |-> ""]

-----------------------------------------------------------------------------
(* Hybrid detector *)

\* GetActiveApp line 97: is the window strategy tried first
UseWindow(d) == d.kind # "none" /\ WindowIsAvailable(d)

\* mutant: the window result is given the hybrid confidence
getActiveAppFromWindowAsHybrid(win) ==
    IF ~win.ok THEN AppErr(Error(win.reason, {}))
    ELSE IF win.AppName = "" \/ win.AppName = "Unknown"
    THEN AppErr(Error("no valid window information", {}))
    ELSE AppOk([AppName |-> win.AppName,
                WindowTitle |-> win.WindowTitle,
                ProcessName |-> win.ProcessName,
                PID |-> 0,
                Confidence |-> 9,
                DetectionMethod |-> "hybrid"])

getActiveAppFromWindow(win) ==
    IF ~win.ok THEN AppErr(Error(win.reason, {}))
    ELSE IF win.AppName = "" \/ win.AppName = "Unknown"
    THEN AppErr(Error("no valid window information", {}))
    ELSE AppOk([AppName |-> win.AppName,
                WindowTitle |-> win.WindowTitle,
                ProcessName |-> win.ProcessName,
                PID |-> 0,
                Confidence |-> 10,
                DetectionMethod |-> "window"])

\* mutant: the process detector is consulted whatever the window attempt gave
afterWindowAlwaysProcess(r) == "tryProcess"

\* mutant: a failed window attempt ends the call
afterWindowNeverProcess(r) == "return"

\* where GetActiveApp goes after the window attempt returned r
afterWindow(r) == IF r.ok THEN "return" ELSE "tryProcess"

\* mutant: both names have to match
enhanceBothMatch(info, win) ==
    IF win.ok /\ (win.AppName = info.AppName /\ win.ProcessName = info.ProcessName)
    THEN [info EXCEPT !.WindowTitle = win.WindowTitle,
                      !.Confidence = 9,
                      !.DetectionMethod = "hybrid"]
    ELSE info

\* GetActiveApp lines 112-119: the process result info given the re-queried window
enhance(info, win) ==
    IF win.ok /\ (win.AppName = info.AppName \/ win.ProcessName = info.ProcessName)
    THEN [info EXCEPT !.WindowTitle = win.WindowTitle,
                      !.Confidence = 9,
                      !.DetectionMethod = "hybrid"]
    ELSE info

\* where GetActiveApp goes after the process detector returned r
afterProcess(d, r) ==
    IF ~r.ok THEN "return" ELSE IF d.kind # "none" THEN "enhance" ELSE "return"

\* mutant: nothing is reported when both paths failed
allMethodsFailedNil(werr, perr) == NoError

\* the error GetActiveApp returns when both paths failed
allMethodsFailed(werr, perr) == Error("all detection methods failed", {})

\* mutant: the window reason is left out of the log
failureLogProcessOnly(werr, perr) ==
    [line |-> "Process detection failed", window |-> NoError, process |-> perr]

\* the line GetActiveApp logs when the process path failed
failureLog(werr, perr) ==
    IF werr # NoError
    THEN [line |-> "All detection methods failed", window |-> werr, process |-> perr]
    ELSE [line |-> "Process detection failed", window |-> NoError, process |-> perr]

NoIdleQuery == [idleOk |-> FALSE, idleMs |-> 0, lockers |-> {},
                lockedHint |-> FALSE, screenSaver |-> FALSE]

NoIdleInfo == [IsIdle |-> FALSE, IsLocked |-> FALSE, IdleTime |-> 0, err |-> "none"]

callVars == << calls, windowErr, appInfo, retErr, procRes, reWin, firstWin, logged >>

idleVars == << idleIn, idleOut >>

\* the detector as hybrid.NewDetector leaves it in one of the environments E
DetInit(E) ==
    /\ env \in E
    /\ wd \in detectWindowDetector(env)
    /\ knownProcesses = EmptyMap
    /\ activePIDs = EmptyMap
    /\ running = env.inputDevices
    /\ now = 0
    /\ pc = "idle"
    /\ calls = << >>
    /\ windowErr = NoError
    /\ appInfo = NoApp
    /\ retErr = NoError
    /\ procRes = NoResult
    /\ reWin = NoWindow
    /\ firstWin = NoWindow
    /\ logged = << >>
    /\ lastSuccessfulMethod = ""
    /\ idleIn = NoIdleQuery
    /\ idleOut = NoIdleInfo

\* the configuration config.New returns under one of the settings given
\* (pairs of ACTIONSUM_POLL_INTERVAL and ACTIONSUM_IDLE_THRESHOLD)
CfgInit(settings) ==
    /\ \E x \in settings : cfg = ConfigNew(x[1], x[2])
    /\ cfgCall = NoCfgCall

NoEvent == [AppName |-> "", WindowTitle |-> "", Duration |-> 0, IsIdle |-> FALSE,
            IsLocked |-> FALSE, DisplayServer |-> ""]

\* calls: what trackOnce asked of the detector; err: what it returned;
\* persisted, event: the FocusEvent repo.Create stored; stored: the message
\* of the ErrorLog row storeError wrote ("" is none)
NoCycle == [calls |-> << >>, err |-> NoError, persisted |-> FALSE, event |-> NoEvent,
            stored |-> ""]

\* tracker.NewService
TrkInit ==
    /\ tpc = "new"
    /\ svcRunning = FALSE
    /\ svcStopChan = "open"
    /\ ctxDone = FALSE
    /\ startRet = "running"
    /\ stopCalls = << >>
    /\ idleInfo = NoIdleInfo
    /\ cycle = NoCycle

\* process.NewInputMonitor and Initialize: the goroutine runs when
\* /proc/bus/input/devices could be read
\* nothing has been parsed; strings given to parseWMClass are sequences of
\* one-character strings
NoParse == [input |-> << >>, done |-> FALSE, x11 |-> << >>, wayland |-> << >>]

ImInit ==
    /\ stopChan = "open"
    /\ closes = 0
    /\ mpc = IF running THEN "select" ELSE "none"
    /\ closeCalls = << >>
    /\ reader = FALSE
    /\ sample = {}
    /\ tickedAfterClose = FALSE

Init ==
    /\ DetInit(Envs)
    /\ CfgInit({<< "", "" >>})
    /\ TrkInit
    /\ ImInit
    /\ parse = NoParse

\* time passes
Tick ==
    /\ now < MaxTime
    /\ now' = now + 1
    /\ UNCHANGED hostVars
    /\ UNCHANGED << env, wd, knownProcesses, activePIDs, running, pc, callVars,
                    lastSuccessfulMethod, idleVars >>

\* InputMonitor.monitor: the ticker fired
SamplerTick ==
    /\ running
    /\ \E psOk \in BOOLEAN, busy \in SUBSET SampledPIDs :
          activePIDs' = updateActivityFromCPU(activePIDs, psOk, busy, now)
    /\ UNCHANGED hostVars
    /\ UNCHANGED << env, wd, knownProcesses, running, now, pc, callVars,
                    lastSuccessfulMethod, idleVars >>

\* hybrid GetActiveApp is entered (lines 89-97)
GetActiveAppCall ==
    /\ pc = "idle"
    /\ pc' = IF UseWindow(wd) THEN "tryWindow" ELSE "tryProcess"
    /\ UNCHANGED hostVars
    /\ UNCHANGED << env, wd, knownProcesses, activePIDs, running, now, callVars,
                    lastSuccessfulMethod, idleVars >>

\* lines 98-104: getActiveAppFromWindow
TryWindow ==
    /\ pc = "tryWindow"
    /\ \E x \in WindowQueries :
          LET win == WindowGetFocusedWindow(wd, env, x)
              r == getActiveAppFromWindow(win)
          IN  /\ firstWin' = win
              /\ calls' = Append(calls, "window")
              /\ pc' = afterWindow(r)
              /\ IF r.ok
                 THEN /\ appInfo' = r.info
                      /\ lastSuccessfulMethod' = "window"
                      /\ UNCHANGED windowErr
                 ELSE /\ windowErr' = r.err
                      /\ UNCHANGED << appInfo, lastSuccessfulMethod >>
    /\ UNCHANGED hostVars
    /\ UNCHANGED << env, wd, knownProcesses, activePIDs, running, now, retErr,
                    procRes, reWin, logged, idleVars >>

\* lines 108-132: processDetector.GetActiveApp and what follows its failure
TryProcess ==
    /\ pc = "tryProcess"
    /\ \E scanOk \in BOOLEAN, gone \in SUBSET OptionalPIDs, title \in {"Unknown", "main.go"} :
          LET live == (DOMAIN ProcTable(env)) \ gone
              known == IF scanOk
                       THEN scanProcesses(env, knownProcesses, live, now)
                       ELSE knownProcesses
          IN  /\ knownProcesses' = known
              /\ \E best \in IF scanOk /\ DOMAIN known # {}
                             THEN bestCandidates(env, known, activePIDs, now)
                             ELSE {0} :
                    procRes' = IF scanOk
                               THEN ProcessGetActiveApp(env, known, activePIDs, best, title, now)
                               ELSE AppErr(Error("failed to scan processes", {"open /proc"}))
    /\ calls' = Append(calls, "process")
    /\ pc' = afterProcess(wd, procRes')
    /\ IF procRes'.ok
       THEN /\ appInfo' = procRes'.info
            /\ lastSuccessfulMethod' = "process"
            /\ UNCHANGED << retErr, logged >>
       ELSE /\ retErr' = allMethodsFailed(windowErr, procRes'.err)
            /\ logged' = Append(logged, failureLog(windowErr, procRes'.err))
            /\ UNCHANGED << appInfo, lastSuccessfulMethod >>
    /\ UNCHANGED hostVars
    /\ UNCHANGED << env, wd, activePIDs, running, now, windowErr, reWin, firstWin,
                    idleVars >>

\* lines 112-120: the window strategy is asked again
Enhance ==
    /\ pc = "enhance"
    /\ \E x \in WindowQueries :
          LET win == WindowGetFocusedWindow(wd, env, x)
          IN  /\ reWin' = win
              /\ appInfo' = enhance(appInfo, win)
    /\ calls' = Append(calls, "requery")
    /\ pc' = "return"
    /\ UNCHANGED hostVars
    /\ UNCHANGED << env, wd, knownProcesses, activePIDs, running, now, windowErr,
                    retErr, procRes, firstWin, logged, lastSuccessfulMethod, idleVars >>

\* GetActiveApp returns (appInfo, retErr) to the poller
Return ==
    /\ pc = "return"
    /\ pc' = "idle"
    /\ calls' = << >>
    /\ windowErr' = NoError
    /\ appInfo' = NoApp
    /\ retErr' = NoError
    /\ procRes' = NoResult
    /\ reWin' = NoWindow
    /\ firstWin' = NoWindow
    /\ logged' = << >>
    /\ UNCHANGED hostVars
    /\ UNCHANGED << env, wd, knownProcesses, activePIDs, running, now,
                    lastSuccessfulMethod, idleVars >>

\* hybrid GetIdleInfo, up to its return statement
GetIdleInfo ==
    /\ pc = "idle"
    /\ \E q \in IdleQueries :
          /\ idleIn' = q
          /\ idleOut' = HybridGetIdleInfo(wd, env, q)
    /\ pc' = "idleReturn"
    /\ UNCHANGED hostVars
    /\ UNCHANGED << env, wd, knownProcesses, activePIDs, running, now, callVars,
                    lastSuccessfulMethod >>

\* GetIdleInfo returns idleOut to the poller
IdleReturn ==
    /\ pc = "idleReturn"
    /\ pc' = "idle"
    /\ idleIn' = NoIdleQuery
    /\ idleOut' = NoIdleInfo
    /\ UNCHANGED hostVars
    /\ UNCHANGED << env, wd, knownProcesses, activePIDs, running, now, callVars,
                    lastSuccessfulMethod >>

Next ==
    \/ Tick
    \/ SamplerTick
    \/ GetActiveAppCall
    \/ TryWindow
    \/ TryProcess
    \/ Enhance
    \/ Return
    \/ GetIdleInfo
    \/ IdleReturn

Spec == Init /\ [][Next]_vars

-----------------------------------------------------------------------------
(* The configuration on its own *)

\* an environment without display, tools or input devices
BareEnvs == { e \in Envs : ~e.wayland /\ ~e.display /\ e.tools = {}
                           /\ ~e.inputDevices /\ e.launch = "daemon" }

\* config.Default replaces the configuration
CfgDefault ==
    /\ cfg' = Default
    /\ cfgCall' = [NoCfgCall EXCEPT !.op = "Default", !.before = cfg]
    /\ UNCHANGED << detVars, trkVars, imVars, parse >>

\* config.LoadFromEnv(cfg)
CfgLoadFromEnv ==
    /\ \E p \in EnvValues, i \in EnvValues :
          /\ cfg' = LoadFromEnv(cfg, p, i)
          /\ cfgCall' = [NoCfgCall EXCEPT !.op = "LoadFromEnv", !.pollInterval = p,
                                          !.idleThreshold = i, !.before = cfg]
    /\ UNCHANGED << detVars, trkVars, imVars, parse >>

\* cfg.SetPollInterval(interval)
CfgSetPollInterval ==
    /\ \E interval \in Intervals :
          LET r == SetPollInterval(cfg, interval)
          IN  /\ cfg' = r.cfg
              /\ cfgCall' = [NoCfgCall EXCEPT !.op = "SetPollInterval",
                                              !.interval = interval,
                                              !.before = cfg, !.err = r.err]
    /\ UNCHANGED << detVars, trkVars, imVars, parse >>

ConfigInit ==
    /\ DetInit(BareEnvs)
    /\ cfg = Default
    /\ cfgCall = NoCfgCall
    /\ TrkInit
    /\ ImInit
    /\ parse = NoParse

ConfigNext ==
    \/ CfgDefault
    \/ CfgLoadFromEnv
    \/ CfgSetPollInterval

ConfigSpec == ConfigInit /\ [][ConfigNext]_vars

-----------------------------------------------------------------------------
(* Tracker service (internal/tracker) polling the hybrid detector *)

MaxStops == 2

\* hybrid.Detector.GetDisplayServer
HybridGetDisplayServer(d) ==
    IF d.kind # "none" THEN d.kind ELSE "process-based"

\* hybrid.Detector.GetFocusedWindow once GetActiveApp returned (info, err)
HybridGetFocusedWindow(d, info, err) ==
    IF err # NoError THEN WinErr(err.msg)
    ELSE WinOk(info.AppName, info.WindowTitle, info.ProcessName,
               HybridGetDisplayServer(d))

\* mutant: a locked screen is tracked
skipTrackingIdleOnly(info) == info.IsIdle

\* trackOnce line 93: the cycle is skipped
skipTracking(info) == info.IsIdle \/ info.IsLocked

\* mutant: the default interval is written, whatever is configured
FocusEventDefaultDuration(win, info, c) ==
    [AppName |-> win.AppName, WindowTitle |-> win.WindowTitle,
     Duration |-> GetPollIntervalSeconds(Default), IsIdle |-> info.IsIdle,
     IsLocked |-> info.IsLocked, DisplayServer |-> win.DisplayServer]

FocusEvent(win, info, c) ==
    [AppName |-> win.AppName, WindowTitle |-> win.WindowTitle,
     Duration |-> GetPollIntervalSeconds(c), IsIdle |-> info.IsIdle,
     IsLocked |-> info.IsLocked, DisplayServer |-> win.DisplayServer]

\* trackOnce lines 98-122, after GetFocusedWindow returned win: the error
\* returned (createOk: repo.Create succeeded)
trackOnceErr(win, createOk) ==
    IF ~win.ok THEN Error("failed to get focused window", {win.reason})
    ELSE IF win.AppName = "" THEN Error("no valid window information available", {})
    ELSE IF ~createOk THEN Error("failed to save event", {"database"})
    ELSE NoError

\* storeError: the ErrorLog row written (logOk: CreateErrorLog succeeded)
storeError(err, logOk) == IF logOk THEN err.msg ELSE ""

\* mutant: an error ends Start
afterCycleFailFast(err) == IF err # NoError THEN "returned" ELSE "select"

\* Start lines 44-52 and 65-72: where the goroutine goes once trackOnce returned err
afterCycle(err) == "select"

\* sessions the tracker is run in: X11 with all tools, no window system, sway
TrackerEnvs ==
    { e \in Envs :
        /\ e.inputDevices
        /\ e.launch = "daemon"
        /\ \/ ~e.wayland /\ e.display /\ "xprintidle" \in e.tools
           \/ ~e.wayland /\ ~e.display
           \/ e.compositors = {"sway"} }

\* Service.Start up to the first trackOnce (lines 33-44)
Start ==
    /\ tpc = "new"
    /\ ~svcRunning
    /\ svcRunning' = TRUE
    /\ tpc' = "probe"
    /\ UNCHANGED << detVars, cfgVars, parse, imVars, svcStopChan, ctxDone, startRet,
                    stopCalls, idleInfo, cycle >>

\* trackOnce line 88: s.detector.GetIdleInfo()
TrackProbe ==
    /\ tpc = "probe"
    /\ GetIdleInfo

\* trackOnce lines 89-96: the IdleInfo came back
TrackAfterProbe ==
    /\ tpc = "probe"
    /\ pc = "idleReturn"
    /\ idleInfo' = idleOut
    /\ pc' = "idle"
    /\ idleIn' = NoIdleQuery
    /\ idleOut' = NoIdleInfo
    /\ IF idleOut.err # ""
       THEN \E logOk \in BOOLEAN :
               LET err == Error("failed to get idle info", {idleOut.err})
               IN  /\ cycle' = [NoCycle EXCEPT !.calls = << "GetIdleInfo" >>,
                                               !.err = err,
                                               !.stored = storeError(err, logOk)]
                   /\ tpc' = afterCycle(err)
       ELSE IF skipTracking(idleOut)
       THEN /\ cycle' = [NoCycle EXCEPT !.calls = << "GetIdleInfo" >>]
            /\ tpc' = afterCycle(NoError)
       ELSE /\ cycle' = [NoCycle EXCEPT !.calls = << "GetIdleInfo", "GetFocusedWindow" >>]
            /\ tpc' = "focus"
    /\ UNCHANGED << env, wd, knownProcesses, activePIDs, running, now, callVars,
                    lastSuccessfulMethod, cfgVars, parse, imVars, svcRunning, svcStopChan,
                    ctxDone, startRet, stopCalls >>

\* trackOnce line 98: s.detector.GetFocusedWindow(), which runs GetActiveApp
TrackFocus ==
    /\ tpc = "focus"
    /\ \/ GetActiveAppCall
       \/ TryWindow
       \/ TryProcess
       \/ Enhance

\* trackOnce lines 99-122 and Start's handling of its result
TrackAfterFocus ==
    /\ tpc = "focus"
    /\ pc = "return"
    /\ \E createOk \in BOOLEAN, logOk \in BOOLEAN :
          LET win == HybridGetFocusedWindow(wd, appInfo, retErr)
              err == trackOnceErr(win, createOk)
          IN  /\ cycle' = [cycle EXCEPT
                             !.err = err,
                             !.persisted = (err = NoError),
                             !.event = IF err = NoError
                                       THEN FocusEvent(win, idleInfo, cfg) ELSE NoEvent,
                             !.stored = IF err # NoError
                                        THEN storeError(err, logOk) ELSE ""]
              /\ tpc' = afterCycle(err)
    /\ pc' = "idle"
    /\ calls' = << >>
    /\ windowErr' = NoError
    /\ appInfo' = NoApp
    /\ retErr' = NoError
    /\ procRes' = NoResult
    /\ reWin' = NoWindow
    /\ firstWin' = NoWindow
    /\ logged' = << >>
    /\ UNCHANGED << env, wd, knownProcesses, activePIDs, running, now,
                    lastSuccessfulMethod, idleVars, cfgVars, parse, imVars, svcRunning,
                    svcStopChan, ctxDone, startRet, stopCalls, idleInfo >>

\* Start line 64: the ticker fired
SelectTicker ==
    /\ tpc = "select"
    /\ tpc' = "probe"
    /\ UNCHANGED << detVars, cfgVars, parse, imVars, svcRunning, svcStopChan, ctxDone,
                    startRet, stopCalls, idleInfo, cycle >>

\* Start lines 59-62: the stop channel is closed
SelectStop ==
    /\ tpc = "select"
    /\ svcStopChan = "closed"
    /\ svcRunning' = FALSE
    /\ startRet' = "nil"
    /\ tpc' = "returned"
    /\ UNCHANGED << detVars, cfgVars, parse, imVars, svcStopChan, ctxDone, stopCalls,
                    idleInfo, cycle >>

\* Start lines 54-57: the context is done
SelectCtx ==
    /\ tpc = "select"
    /\ ctxDone
    /\ svcRunning' = FALSE
    /\ startRet' = "context canceled"
    /\ tpc' = "returned"
    /\ UNCHANGED << detVars, cfgVars, parse, imVars, svcStopChan, ctxDone, stopCalls,
                    idleInfo, cycle >>

\* the caller cancels the context
Cancel ==
    /\ tpc # "crashed"
    /\ ~ctxDone
    /\ ctxDone' = TRUE
    /\ UNCHANGED << detVars, cfgVars, parse, imVars, tpc, svcRunning, svcStopChan,
                    startRet, stopCalls, idleInfo, cycle >>

\* Service.Stop, from another goroutine; closing a closed channel panics,
\* which ends the process
Stop ==
    /\ tpc # "crashed"
    /\ Len(stopCalls) < MaxStops
    /\ IF ~svcRunning
       THEN /\ stopCalls' = Append(stopCalls, "noop")
            /\ UNCHANGED << svcStopChan, tpc >>
       ELSE IF svcStopChan = "closed"
       THEN /\ stopCalls' = Append(stopCalls, "panic")
            /\ tpc' = "crashed"
            /\ UNCHANGED svcStopChan
       ELSE /\ stopCalls' = Append(stopCalls, "closed")
            /\ svcStopChan' = "closed"
            /\ UNCHANGED tpc
    /\ UNCHANGED << detVars, cfgVars, parse, imVars, svcRunning, ctxDone, startRet,
                    idleInfo, cycle >>

TrackerInit ==
    /\ DetInit(TrackerEnvs)
    /\ CfgInit({<< "", "" >>, << "30", "600" >>})
    /\ TrkInit
    /\ ImInit
    /\ parse = NoParse

TrackerNext ==
    \/ Start
    \/ TrackProbe
    \/ TrackAfterProbe
    \/ TrackFocus
    \/ TrackAfterFocus
    \/ SelectTicker
    \/ SelectStop
    \/ SelectCtx
    \/ Cancel
    \/ Stop

TrackerSpec == TrackerInit /\ [][TrackerNext]_vars

-----------------------------------------------------------------------------
(* Life cycle of the CPU sampler: the monitor goroutine, Close, and the poll *)
(* thread reading the recency table                                          *)

MaxCloses == 2

\* mutant: the channel is closed whether or not the sampler runs
InputMonitorCloseUnguarded(run, ch) ==
    IF ch = "closed"
    THEN [running |-> run, stopChan |-> ch, closed |-> 0, ret |-> "panic"]
    ELSE [running |-> FALSE, stopChan |-> "closed", closed |-> 1, ret |-> "nil"]

\* mutant: running is cleared but the channel is left open
InputMonitorCloseNoSignal(run, ch) ==
    [running |-> FALSE, stopChan |-> ch, closed |-> 0, ret |-> "nil"]

\* InputMonitor.Close: the fields afterwards, whether close(stopChan) ran,
\* and what the call did (closing a closed channel panics)
InputMonitorClose(run, ch) ==
    IF run
    THEN IF ch = "closed"
         THEN [running |-> run, stopChan |-> ch, closed |-> 0, ret |-> "panic"]
         ELSE [running |-> FALSE, stopChan |-> "closed", closed |-> 1, ret |-> "nil"]
    ELSE [running |-> run, stopChan |-> ch, closed |-> 0, ret |-> "nil"]

\* process.Detector.Close: inputMonitor is set by Initialize
ProcessClose(run, ch) == InputMonitorClose(run, ch)

\* the window strategies' Close
WindowClose(d) == "nil"

\* hybrid.Detector.Close: errors of the two Close calls are logged, nil is returned
HybridClose(d, run, ch) ==
    LET r == ProcessClose(run, ch)
    IN  [r EXCEPT !.ret = IF r.ret = "panic" THEN "panic" ELSE "nil"]

\* the Close call returned to its caller
closeReturned == \E i \in DOMAIN closeCalls : closeCalls[i] = "nil"

\* the process is alive: no panic and no fatal runtime error
alive == mpc # "fatal" /\ \A i \in DOMAIN closeCalls : closeCalls[i] # "panic"

\* monitor line 427: the ticker case is taken.  Go's select picks among the
\* ready cases at random, so a closed stopChan does not prevent it
MonitorTick ==
    /\ alive
    /\ mpc = "select"
    /\ mpc' = "ps"
    /\ tickedAfterClose' = (tickedAfterClose \/ closeReturned)
    /\ UNCHANGED << detVars, cfgVars, parse, trkVars, stopChan, closes, closeCalls, reader,
                    sample >>

\* updateActivityFromCPU lines 438-442: ps ran
MonitorPs ==
    /\ alive
    /\ mpc = "ps"
    /\ \E psOk \in BOOLEAN, busy \in SUBSET SampledPIDs :
          IF psOk
          THEN mpc' = "writing" /\ sample' = busy
          ELSE mpc' = "select" /\ sample' = {}
    /\ UNCHANGED << detVars, cfgVars, parse, trkVars, stopChan, closes, closeCalls, reader,
                    tickedAfterClose >>

\* updateActivityFromCPU lines 450-480: the table is written and purged.  A
\* write while another goroutine ranges over the map is a data race: the Go
\* runtime may stop the process with "concurrent map iteration and map write"
MonitorWrite ==
    /\ alive
    /\ mpc = "writing"
    /\ activePIDs' = updateActivityFromCPU(activePIDs, TRUE, sample, now)
    /\ sample' = {}
    /\ tickedAfterClose' = (tickedAfterClose \/ closeReturned)
    /\ \E fatal \in IF reader /\ sample # {} THEN BOOLEAN ELSE {FALSE} :
          mpc' = IF fatal THEN "fatal" ELSE "select"
    /\ UNCHANGED << env, wd, knownProcesses, running, now, pc, callVars,
                    lastSuccessfulMethod, idleVars, cfgVars, parse, trkVars, stopChan,
                    closes, closeCalls, reader >>

\* monitor line 425: the stop case is taken
MonitorExit ==
    /\ alive
    /\ mpc = "select"
    /\ stopChan = "closed"
    /\ mpc' = "exited"
    /\ UNCHANGED << detVars, cfgVars, parse, trkVars, stopChan, closes, closeCalls, reader,
                    sample, tickedAfterClose >>

\* hybrid Close is called and returns
Close ==
    /\ alive
    /\ Len(closeCalls) < MaxCloses
    /\ LET r == HybridClose(wd, running, stopChan)
       IN  /\ running' = r.running
           /\ stopChan' = r.stopChan
           /\ closes' = closes + r.closed
           /\ closeCalls' = Append(closeCalls, r.ret)
    /\ UNCHANGED << env, wd, knownProcesses, activePIDs, now, pc, callVars,
                    lastSuccessfulMethod, idleVars, cfgVars, parse, trkVars, mpc, reader,
                    sample, tickedAfterClose >>

\* GetRecentlyActivePIDs line 486: the poll thread starts ranging over the table
ReadBegin ==
    /\ alive
    /\ closeCalls = << >>
    /\ ~reader
    /\ reader' = TRUE
    /\ UNCHANGED << detVars, cfgVars, parse, trkVars, stopChan, closes, mpc, closeCalls,
                    sample, tickedAfterClose >>

\* GetRecentlyActivePIDs line 489: the copy is returned
ReadEnd ==
    /\ alive
    /\ reader
    /\ reader' = FALSE
    /\ UNCHANGED << detVars, cfgVars, parse, trkVars, stopChan, closes, mpc, closeCalls,
                    sample, tickedAfterClose >>

SamplerInit ==
    /\ DetInit(BareEnvs \cup { e \in Envs : ~e.wayland /\ ~e.display /\ e.tools = {}
                                           /\ e.inputDevices /\ e.launch = "daemon" })
    /\ CfgInit({<< "", "" >>})
    /\ TrkInit
    /\ ImInit
    /\ parse = NoParse

SamplerNext ==
    \/ Tick
    \/ MonitorTick
    \/ MonitorPs
    \/ MonitorWrite
    \/ MonitorExit
    \/ Close
    \/ ReadBegin
    \/ ReadEnd

SamplerSpec == SamplerInit /\ [][SamplerNext]_vars

-----------------------------------------------------------------------------
(* Properties *)

\* the window strategy returned a window with a usable application name
validWindow(win) == win.ok /\ win.AppName # "" /\ win.AppName # "Unknown"

processCalls == Cardinality({ i \in DOMAIN calls : calls[i] = "process" })

\* err carries the reason inner: it is that error or wraps it
Carries(err, inner) == inner.msg = err.msg \/ inner.msg \in err.causes

returned == pc = "return" /\ retErr = NoError

\* C1: when the window strategy gives hybrid GetActiveApp a focused window
\* whose AppName is neither empty nor "Unknown", the AppInfo returned has
\* Confidence 1.0 and DetectionMethod "window" and carries the window's
\* AppName, WindowTitle and ProcessName unchanged.
C1_WindowSuccess ==
    (pc = "return" /\ validWindow(firstWin)) =>
        /\ retErr = NoError
        /\ appInfo.Confidence = 10
        /\ appInfo.DetectionMethod = "window"
        /\ appInfo.AppName = firstWin.AppName
        /\ appInfo.WindowTitle = firstWin.WindowTitle
        /\ appInfo.ProcessName = firstWin.ProcessName

C1_Witness ==
    /\ pc = "return"
    /\ validWindow(firstWin)
    /\ firstWin.WindowTitle = "main.go"
    /\ firstWin.ProcessName = "firefox"

\* C2: within one GetActiveApp call the process detector is invoked only
\* after the window attempt has finished without a valid result, or first
\* when the attempt is skipped; after a successful window attempt it is not
\* invoked at all.
C2_WindowBeforeProcess ==
    /\ validWindow(firstWin) => processCalls = 0
    /\ pc = "tryProcess" =>
          IF UseWindow(wd)
          THEN calls = << "window" >> /\ ~validWindow(firstWin) /\ windowErr # NoError
          ELSE calls = << >>
    /\ \A i \in DOMAIN calls :
          calls[i] = "process" =>
             IF UseWindow(wd)
             THEN i = 2 /\ calls[1] = "window" /\ windowErr # NoError
             ELSE i = 1

C2_Witness ==
    /\ pc = "return"
    /\ Len(calls) >= 2
    /\ calls[1] = "window"
    /\ calls[2] = "process"
    /\ firstWin.ok

\* C3: a GetActiveApp call whose window strategy is absent, unavailable,
\* failed or gave an empty or "Unknown" name has invoked the process
\* detector's GetActiveApp exactly once when it returns.
C3_ProcessExactlyOnce ==
    (pc = "return" /\ ~validWindow(firstWin)) => processCalls = 1

C3_Witness ==
    /\ pc = "return"
    /\ firstWin.ok
    /\ firstWin.AppName = "Unknown"
    /\ processCalls = 1

\* C4: GetActiveApp returns an error exactly when the window path gave no
\* valid result and the process path failed too; otherwise it returns an
\* AppInfo and no error.  The only error is "all detection methods failed".
C4_ErrorIffBothFailed ==
    pc = "return" =>
        /\ (retErr # NoError) <=> (~validWindow(firstWin) /\ ~procRes.ok)
        /\ retErr = NoError => appInfo # NoApp
        /\ retErr # NoError => appInfo = NoApp /\ retErr.msg = "all detection methods failed"

C4_Witness ==
    /\ pc = "return"
    /\ retErr # NoError
    /\ firstWin.ok
    /\ procRes.err.msg = "no GUI applications detected"

\* C5 as claimed: when both paths fail the error returned carries the
\* window-path reason and the process-path reason.
C5_ErrorCarriesReasons ==
    (pc = "return" /\ retErr # NoError) =>
        /\ Carries(retErr, procRes.err)
        /\ windowErr # NoError => Carries(retErr, windowErr)

\* C5 amended: when both paths fail the error returned is the fixed
\* "all detection methods failed", which carries neither reason; the reasons
\* are written to the log, the window reason when the window was attempted.
C5_ReasonsLoggedNotReturned ==
    (pc = "return" /\ retErr # NoError) =>
        /\ retErr = Error("all detection methods failed", {})
        /\ ~Carries(retErr, procRes.err)
        /\ Len(logged) = 1
        /\ logged[1].process = procRes.err
        /\ logged[1].window = windowErr
        /\ windowErr # NoError <=> UseWindow(wd)

C5_Witness ==
    /\ pc = "return"
    /\ retErr # NoError
    /\ windowErr.msg = "failed to get window name"
    /\ procRes.err.msg = "failed to scan processes"

\* C6: after the process path succeeded, if a window strategy exists and the
\* window it returns when asked again has the result's AppName or the
\* result's ProcessName, the result gets the window's title, Confidence 0.9
\* and DetectionMethod "hybrid" and keeps AppName, ProcessName and PID;
\* otherwise the process result is returned as it is.
C6_Enhancement ==
    (pc = "return" /\ procRes.ok) =>
        IF /\ wd.kind # "none"
           /\ reWin.ok
           /\ \/ reWin.AppName = procRes.info.AppName
              \/ reWin.ProcessName = procRes.info.ProcessName
        THEN /\ appInfo.WindowTitle = reWin.WindowTitle
             /\ appInfo.Confidence = 9
             /\ appInfo.DetectionMethod = "hybrid"
             /\ appInfo.AppName = procRes.info.AppName
             /\ appInfo.ProcessName = procRes.info.ProcessName
             /\ appInfo.PID = procRes.info.PID
        ELSE appInfo = procRes.info

C6_Witness ==
    /\ pc = "return"
    /\ procRes.ok
    /\ appInfo.DetectionMethod = "hybrid"
    /\ reWin.AppName = procRes.info.AppName
    /\ reWin.ProcessName # procRes.info.ProcessName
    /\ appInfo.WindowTitle # procRes.info.WindowTitle

\* C7 as claimed: every AppInfo GetActiveApp returns has Confidence in [0, 1].
C7_ConfidenceInUnitInterval ==
    returned => (0 <= appInfo.Confidence /\ appInfo.Confidence <= 10)

\* C8 as claimed: every AppInfo GetActiveApp returns has DetectionMethod
\* "window", "process" or "hybrid", and a process result that was not
\* enhanced has "process".
C8_DetectionMethodEnum ==
    returned =>
        /\ appInfo.DetectionMethod \in {"window", "process", "hybrid"}
        /\ (procRes.ok /\ appInfo = procRes.info) => appInfo.DetectionMethod = "process"

\* C9: hybrid GetIdleInfo never returns an error; it returns the window
\* strategy's idle result when a strategy exists and is available, and
\* otherwise IsIdle = false, IdleTime = 0, IsLocked = the lock heuristic.
C9_IdleNeverFails ==
    pc = "idleReturn" =>
        /\ idleOut.err = ""
        /\ wd.kind = "x11" => idleOut = X11GetIdleInfo(wd, env, idleIn)
        /\ wd.kind = "wayland" => idleOut = WaylandGetIdleInfo(wd, env, idleIn)
        /\ wd.kind = "none" =>
              /\ ~idleOut.IsIdle
              /\ idleOut.IdleTime = 0
              /\ idleOut.IsLocked =
                    (idleIn.lockedHint \/ idleIn.lockers \cap HybridLockers # {})

C9_Witness ==
    /\ pc = "idleReturn"
    /\ wd.kind = "none"
    /\ idleIn.idleMs = 301000
    /\ idleIn.idleOk
    /\ idleOut.IsLocked
    /\ ~idleIn.lockedHint

\* C10: every IdleInfo a detector produces has IsIdle exactly when its idle
\* time is strictly greater than the threshold: 300 s against the threshold
\* of 300 s is not idle, 301 s is.
C10_IdleStrictlyGreater ==
    pc = "idleReturn" => (idleOut.IsIdle <=> idleOut.IdleTime > idleThreshold)

C10_Witness ==
    /\ pc = "idleReturn"
    /\ idleOut.IdleTime = idleThreshold
    /\ ~idleOut.IsIdle
    /\ idleIn.idleMs = 300999

\* C11 as claimed: the detector the tracker polls reports IsIdle exactly when
\* the idle time exceeds the configured Tracker.IdleThreshold.
C11_ConfiguredThreshold ==
    (tpc = "probe" /\ pc = "idleReturn") =>
        (idleOut.IsIdle <=> idleOut.IdleTime > cfg.IdleThreshold)

\* C12 as claimed: once Close was called two or more times the stop channel
\* was closed exactly once, no call panicked and every call returned nil.
C12_ClosedExactlyOnce ==
    Len(closeCalls) >= 2 =>
        /\ closes = 1
        /\ \A i \in DOMAIN closeCalls : closeCalls[i] = "nil"

\* C12 amended: any number of Close calls has the effect of one: no call
\* panics, every call returns nil, and the stop channel is closed at most
\* once: exactly once when the sampler had been started, never when input
\* devices were inaccessible and it had not.
C12_CloseIdempotent ==
    /\ closes <= 1
    /\ \A i \in DOMAIN closeCalls : closeCalls[i] = "nil"
    /\ Len(closeCalls) >= 1 =>
          /\ ~running
          /\ closes = (IF env.inputDevices THEN 1 ELSE 0)
          /\ stopChan = (IF env.inputDevices THEN "closed" ELSE "open")

C12_Witness ==
    /\ Len(closeCalls) = 2
    /\ closes = 1
    /\ stopChan = "closed"

\* C13 as claimed: once Close has returned the sampler goroutine has
\* terminated, and no sampler tick or table update happens afterwards.
C13_SamplerJoinedOnClose ==
    closeReturned => (mpc \in {"none", "exited"} /\ ~tickedAfterClose)

\* C14 as claimed: the sampler never writes the recency table while
\* GetRecentlyActivePIDs is ranging over it.
C14_NoConcurrentAccess ==
    ~(reader /\ mpc = "writing" /\ sample # {})

\* C15: in a poll cycle whose GetIdleInfo reported IsIdle or IsLocked the
\* tracker asks the detector for nothing else, persists no FocusEvent, and
\* ends the cycle without an error.
C15_IdleOrLockedSkips ==
    /\ tpc = "focus" => ~(idleInfo.IsIdle \/ idleInfo.IsLocked)
    /\ (tpc = "select" /\ (idleInfo.IsIdle \/ idleInfo.IsLocked)) =>
          /\ cycle.calls = << "GetIdleInfo" >>
          /\ ~cycle.persisted
          /\ cycle.event = NoEvent
          /\ cycle.err = NoError
          /\ cycle.stored = ""
          /\ pc = "idle"

C15_Witness ==
    /\ tpc = "select"
    /\ idleInfo.IsLocked
    /\ ~idleInfo.IsIdle
    /\ cycle.calls = << "GetIdleInfo" >>

\* C16: a failed poll cycle leaves the tracker in its loop, running, with the
\* next ticker case ready to be taken; Start has returned only after the
\* stop channel was closed (nil) or the context was cancelled (its error).
C16_FailedCycleKeepsLoop ==
    /\ (tpc = "select" /\ cycle.err # NoError) =>
          /\ svcRunning
          /\ startRet = "running"
          /\ ENABLED SelectTicker
    /\ tpc \in {"probe", "focus", "select"} => (svcRunning /\ startRet = "running")
    /\ tpc = "returned" =>
          /\ ~svcRunning
          /\ \/ startRet = "nil" /\ svcStopChan = "closed"
             \/ startRet = "context canceled" /\ ctxDone

C16_Witness ==
    /\ tpc = "probe"
    /\ pc = "idleReturn"
    /\ cycle.err.msg = "failed to get focused window"
    /\ cycle.stored = ""
    /\ svcRunning

\* C17 as claimed: whenever the X11 strategy reports IsAvailable, a
\* GetFocusedWindow call executes only detection tools that are installed,
\* and some outcome of those tools lets the call succeed.
C17_EitherToolSuffices ==
    (wd.kind = "x11" /\ X11IsAvailable(wd)) =>
        /\ \A x \in WindowQueries : X11ToolsInvoked(wd, env, x) \subseteq env.tools
        /\ \E x \in WindowQueries : X11GetFocusedWindow(wd, env, x).ok

\* C18 as claimed: the detector New returns reports the display server "x11"
\* or "wayland".
C18_DisplayServerEnum ==
    HybridGetDisplayServer(wd) \in {"x11", "wayland"}

\* C19: the poll interval is within [10 s, 300 s] after every Default,
\* LoadFromEnv and SetPollInterval; a SetPollInterval outside that range
\* returns an error and changes nothing, one inside it sets the interval.
C19_PollIntervalInRange ==
    /\ cfg.MinPollInterval = 10
    /\ cfg.MaxPollInterval = 300
    /\ cfg.MinPollInterval <= cfg.PollInterval
    /\ cfg.PollInterval <= cfg.MaxPollInterval
    /\ cfgCall.op = "SetPollInterval" =>
          IF cfgCall.interval < 10 \/ cfgCall.interval > 300
          THEN cfgCall.err # "" /\ cfg = cfgCall.before
          ELSE cfgCall.err = "" /\ cfg.PollInterval = cfgCall.interval

C19_Witness ==
    /\ cfgCall.op = "SetPollInterval"
    /\ cfgCall.interval = 301
    /\ cfgCall.err # ""
    /\ cfg.PollInterval = 30
    /\ cfg.IdleThreshold = 600

\* the Wayland detector that wayland.NewDetector builds when no compositor
\* process is found
unknownWayland == WaylandNewDetector(env, "unknown")

\* the session is a Wayland one in which no known compositor is detected
unknownCompositor == env.wayland /\ env.compositors = {}

\* C20 as claimed: with compositor "unknown" the Wayland strategy is
\* unavailable and fails without running a command, the hybrid detector never
\* invokes it, and GetActiveApp goes straight to the process path.
C20_StraightToProcess ==
    unknownCompositor =>
        /\ ~WaylandIsAvailable(unknownWayland)
        /\ wd.kind # "wayland"
        /\ pc # "tryWindow"
        /\ \A i \in DOMAIN calls : calls[i] = "process"

\* C20 amended: with compositor "unknown" the Wayland strategy is unavailable
\* and its GetFocusedWindow fails without running a command; the hybrid
\* detector never holds it.  It holds the X11 strategy instead exactly when
\* DISPLAY is set and xdotool or wmctrl is installed, and then GetActiveApp
\* tries that first; otherwise it holds none and GetActiveApp goes straight
\* to the process path.
C20_UnknownCompositor ==
    unknownCompositor =>
        /\ ~WaylandIsAvailable(unknownWayland)
        /\ \A x \in WindowQueries :
              /\ ~WaylandGetFocusedWindow(unknownWayland, env, x).ok
              /\ WaylandToolsInvoked(unknownWayland, env, x) = {}
        /\ wd.kind # "wayland"
        /\ wd.kind = "x11" <=> (env.display /\ env.tools \cap {"xdotool", "wmctrl"} # {})
        /\ wd.kind = "none" =>
              /\ pc \notin {"tryWindow", "enhance"}
              /\ firstWin = NoWindow
              /\ \A i \in DOMAIN calls : calls[i] = "process"
        /\ wd.kind = "x11" => (calls # << >> => calls[1] = "window")

C20_Witness ==
    /\ unknownCompositor
    /\ wd.kind = "none"
    /\ pc = "return"
    /\ calls = << "process" >>
    /\ procRes.ok

-----------------------------------------------------------------------------
(* Window records, compositor choice and tool lookups *)

\* C21: every WindowInfo a window strategy returns without error (the X11
\* xdotool or wmctrl path, sway, Hyprland, GNOME, XWayland, KDE) has a
\* non-empty AppName and a non-empty WindowTitle: an empty value read from the
\* compositor or tool has been replaced by "Unknown".
C21_NoEmptyField ==
    /\ firstWin.ok => firstWin.AppName # "" /\ firstWin.WindowTitle # ""
    /\ reWin.ok => reWin.AppName # "" /\ reWin.WindowTitle # ""

-----------------------------------------------------------------------------
(* RankSpec: the process detector alone, at a time when records of earlier
   scans and CPU samples of any age exist *)

RankStart == 31
RankHorizon == 32

RankLaunches == Launches \cup {"script", "tmux"}

\* no window tool is installed, so GetActiveApp goes to the process path
RankEnvs ==
    { [wayland |-> FALSE, display |-> dpy, tools |-> {}, compositors |-> {},
       inputDevices |-> TRUE, launch |-> l] : dpy \in BOOLEAN, l \in RankLaunches }

\* seconds since the last scan stamped its records
RecordAges == {0, 1, 5, 6}

\* seconds since the sampler last saw a process above 0.5 % CPU
ActiveAges == {0, 1, 4, 5, 29, 30}

guiPIDs(e) == { p \in DOMAIN ProcTable(e) : isGUIApp(e, ProcTable(e)[p]) }

\* the tables an earlier scan can have left: empty before the first scan,
\* else every process that is always alive and perhaps the optional ones
KnownTables(e, t) ==
    {EmptyMap} \cup
    { [p \in S |-> t - age] :
        S \in { S \in SUBSET guiPIDs(e) : guiPIDs(e) \ OptionalPIDs \subseteq S },
        age \in RecordAges }

ActiveTables(t) ==
    {EmptyMap} \cup
    { [p \in S |-> t - age] : S \in (SUBSET SampledPIDs) \ {{}}, age \in ActiveAges }

RankInit ==
    /\ env \in RankEnvs
    /\ wd \in detectWindowDetector(env)
    /\ now = RankStart
    /\ knownProcesses \in KnownTables(env, now)
    /\ activePIDs \in ActiveTables(now)
    /\ running = env.inputDevices
    /\ pc = "idle"
    /\ calls = << >>
    /\ windowErr = NoError
    /\ appInfo = NoApp
    /\ retErr = NoError
    /\ procRes = NoResult
    /\ reWin = NoWindow
    /\ firstWin = NoWindow
    /\ logged = << >>
    /\ lastSuccessfulMethod = ""
    /\ idleIn = NoIdleQuery
    /\ idleOut = NoIdleInfo
    /\ CfgInit({<<"", "">>})
    /\ TrkInit
    /\ ImInit
    /\ parse = NoParse

\* a second passes between two polls
Advance ==
    /\ pc = "idle"
    /\ now < RankHorizon
    /\ now' = now + 1
    /\ UNCHANGED hostVars
    /\ UNCHANGED << env, wd, knownProcesses, activePIDs, running, pc, callVars,
                    lastSuccessfulMethod, idleVars >>

\* the sampler ticks between two polls
RankSample == pc = "idle" /\ SamplerTick

RankNext ==
    \/ Advance
    \/ RankSample
    \/ GetActiveAppCall
    \/ TryProcess
    \/ Return

RankSpec == RankInit /\ [][RankNext]_vars

-----------------------------------------------------------------------------
(* Ranking, eviction and classification in the process detector *)

scoreNow(pid) == score(env, knownProcesses, activePIDs, pid, now)

\* the process path has answered and the table is the one its scan left
ranked == pc = "return" /\ calls = << "process" >>

\* C22: a candidate that isAncestorProcess reports as an ancestor of the
\* detector scores strictly above every candidate it does not, and the
\* candidate whose PID is findMyTerminal's result scores strictly above every
\* other candidate, whatever the activity and freshness bonuses are; so an
\* enclosing terminal that is a candidate is the process path's answer.
C22_AncestorsOutrank ==
    /\ \A p, q \in DOMAIN knownProcesses :
          /\ isAncestorProcess(env, p) /\ ~isAncestorProcess(env, q)
                => scoreNow(p) > scoreNow(q)
          /\ p = findMyTerminal(env) /\ q # p => scoreNow(p) > scoreNow(q)
    /\ ranked /\ procRes.ok /\ findMyTerminal(env) \in DOMAIN knownProcesses
          => procRes.info.PID = findMyTerminal(env)

\* the terminal wins against a browser that holds every other bonus
C22_Witness ==
    /\ ranked
    /\ procRes.ok
    /\ findMyTerminal(env) = 3
    /\ procRes.info.PID = 3
    /\ 2 \in DOMAIN knownProcesses
    /\ knownProcesses[2] = now
    /\ 2 \in DOMAIN activePIDs
    /\ activePIDs[2] = now
    /\ ~isAncestorProcess(env, 2)

\* scanProcesses read /proc (GetActiveApp did not fail at line 75)
scanned == ranked /\ procRes.err.msg # "failed to scan processes"

\* C23: after every scan the candidate table holds no record whose lastSeen is
\* more than 5 seconds older than the scan time, so such a record is absent
\* from the ranking pass that follows; every record the scan refreshed (every
\* GUI process alive at the scan) is retained, stamped with the scan time.
C23_ScanEvictsStale ==
    scanned =>
        /\ \A p \in DOMAIN knownProcesses : now - knownProcesses[p] <= 5
        /\ \A p \in guiPIDs(env) \ OptionalPIDs :
              p \in DOMAIN knownProcesses /\ knownProcesses[p] = now
        /\ procRes.ok => procRes.info.PID \in DOMAIN knownProcesses

\* a record last refreshed exactly 5 s before the scan is still there, next to
\* a record the scan refreshed
C23_Witness ==
    /\ scanned
    /\ 2 \in DOMAIN knownProcesses
    /\ now - knownProcesses[2] = 5
    /\ \E p \in DOMAIN knownProcesses : knownProcesses[p] = now

\* C24: a process whose command name is on the deny-list (for example bash)
\* is never classified as a GUI candidate through the name/command-line
\* path, even when its command line contains an allow-listed application name.
\* (The deny-list holds shell interpreters, session and bus daemons, audio
\* daemons and credential agents.)
C24_DenyListPrecedes ==
    \A p \in DOMAIN knownProcesses :
        /\ ProcTable(env)[p].name \in
              {"bash", "sh", "zsh", "systemd", "dbus-daemon", "pulseaudio", "ssh-agent"}
        /\ ~hasDisplayEnv(env, ProcTable(env)[p])
        => ~matchesGuiApps(ProcTable(env)[p])

\* C28: the score of every candidate is exactly 0.3 + 10.0*[pid is
\* findMyTerminal's result] + 5.0*[isAncestorProcess(pid)] + activity +
\* 0.2*[last seen less than 1 s ago], where activity is exactly one of 0.5
\* (last CPU sample less than 1 s old), 0.3 (less than 5 s), 0.1 (less than
\* 30 s) or 0 (older, or no sample); scores are in tenths.
C28_ScoreFormula ==
    /\ \A p \in DOMAIN knownProcesses :
          LET sampled == p \in DOMAIN activePIDs
              age == IF sampled THEN now - activePIDs[p] ELSE 0
              activity == CASE ~sampled -> 0
                            [] sampled /\ age < 1 -> 5
                            [] sampled /\ 1 <= age /\ age < 5 -> 3
                            [] sampled /\ 5 <= age /\ age < 30 -> 1
                            [] sampled /\ 30 <= age -> 0
          IN  scoreNow(p) = 3 + (IF p = findMyTerminal(env) THEN 100 ELSE 0)
                              + (IF isAncestorProcess(env, p) THEN 50 ELSE 0)
                              + activity
                              + (IF now - knownProcesses[p] < 1 THEN 2 ELSE 0)
    /\ scanned /\ procRes.ok => procRes.info.Confidence = scoreNow(procRes.info.PID)

\* a browser seen by the scan and last busy 5 s ago is returned with 0.6
C28_Witness ==
    /\ scanned
    /\ procRes.ok
    /\ procRes.info.PID = 2
    /\ 2 \in DOMAIN activePIDs
    /\ now - activePIDs[2] = 5
    /\ procRes.info.Confidence = 6

\* C29: the process detector's GetActiveApp returns a candidate whose score is
\* maximal among all records in the table after the scan, and it returns the
\* "no GUI applications detected" error if and only if the table is empty
\* after the scan.
C29_MaximalOrEmpty ==
    scanned =>
        /\ procRes.ok =>
              /\ procRes.info.PID \in DOMAIN knownProcesses
              /\ \A q \in DOMAIN knownProcesses : ~(scoreNow(q) > scoreNow(procRes.info.PID))
        /\ procRes.err.msg = "no GUI applications detected" <=> DOMAIN knownProcesses = {}
        /\ procRes.ok <=> DOMAIN knownProcesses # {}

\* the answer has beaten a record of strictly lower score
C29_Witness ==
    /\ scanned
    /\ procRes.ok
    /\ \E q \in DOMAIN knownProcesses : scoreNow(q) < scoreNow(procRes.info.PID)

\* the direct and transitive parents of pid in the process table
RECURSIVE parentsOf(_, _)
parentsOf(pt, pid) ==
    IF pid \notin DOMAIN pt \/ pt[pid].ppid = 0 THEN {}
    ELSE {pt[pid].ppid} \cup parentsOf(pt, pt[pid].ppid)

\* C30: isAncestorProcess(p) is true if and only if p is a direct or
\* transitive parent of the detector process in the process table (up to
\* PID 1); it is false for the detector's own PID and for every PID not on
\* that chain.
C30_AncestorIffOnChain ==
    \A p \in 0..(Self + 1) :
        isAncestorProcess(env, p) <=> p \in parentsOf(ProcTable(env), Self)

-----------------------------------------------------------------------------
(* StrategySpec: the hybrid detector in sessions where several compositors
   are alive or a helper command is missing *)

\* gnome-shell next to sway is a sway session on a machine whose display
\* manager (GDM) runs its greeter in gnome-shell: pgrep -x sees every user
StrategySessions ==
    { Env(TRUE, FALSE, {"swaymsg", "gdbus", "xprop"}, {"sway", "gnome"}),
      Env(TRUE, FALSE, {"gdbus"}, {"gnome", "kde"}),
      Env(TRUE, FALSE, {"swaymsg"}, {"hyprland"}),
      Env(TRUE, FALSE, {}, {"kde"}),
      Env(TRUE, TRUE, {"gdbus", "xprop"}, {"gnome"}),
      Env(FALSE, TRUE, {"wmctrl"}, {}) }

StrategyEnvs ==
    { [wayland |-> s.wayland, display |-> s.display, tools |-> s.tools,
       compositors |-> s.compositors, inputDevices |-> FALSE, launch |-> "daemon"] :
      s \in StrategySessions }

StrategyInit ==
    /\ DetInit(StrategyEnvs)
    /\ CfgInit({<<"", "">>})
    /\ TrkInit
    /\ ImInit
    /\ parse = NoParse

StrategyNext ==
    \/ GetActiveAppCall
    \/ TryWindow
    \/ TryProcess
    \/ Enhance
    \/ Return

StrategySpec == StrategyInit /\ [][StrategyNext]_vars

\* the compositors map literal of detectCompositor, in the order it is written
compositorPriority == << "sway", "hyprland", "wayfire", "river", "gnome", "kde" >>

\* the alive compositor that comes first in that order
firstAlive(e) ==
    IF e.compositors = {} THEN "unknown"
    ELSE compositorPriority[CHOOSE i \in DOMAIN compositorPriority :
            /\ compositorPriority[i] \in e.compositors
            /\ \A j \in DOMAIN compositorPriority :
                  compositorPriority[j] \in e.compositors => i <= j]

\* C25: compositor detection is a deterministic priority search: when
\* processes of several known compositors are alive at construction, the
\* detected compositor is the one earliest in the priority list, so two
\* detectors built in the same environment select the same compositor.
C25_PrioritySearch ==
    wd.kind = "wayland" => wd.compositor = firstAlive(env)

\* the commands whose PATH lookup (commandExists) one GetFocusedWindow call
\* of the Wayland strategy performs: the GNOME path looks for xprop whenever
\* the gdbus query gave no usable window
WaylandLookPaths(d, e, x) ==
    IF d.compositor = "gnome"
       /\ ~(Runs(e, "gdbus", x.ok1) /\ x.ok2 /\ x.name1 # "" /\ x.name1 # "Unknown")
    THEN {"xprop"}
    ELSE {}

WindowLookPaths(d, e, x) ==
    IF d.kind = "wayland" THEN WaylandLookPaths(d, e, x) ELSE {}

\* C26: each helper tool's PATH lookup is performed at most once per detector
\* lifetime, at construction: no GetFocusedWindow call re-runs the OS lookup.
\* Stated on the answer the window strategy gave: no query that can have
\* produced it looked a command up.
C26_LookupsAtConstructionOnly ==
    \A x \in WindowQueries :
        firstWin # NoWindow /\ firstWin = WindowGetFocusedWindow(wd, env, x)
            => WindowLookPaths(wd, env, x) = {}

\* the commands GetFocusedWindow of strategy d executes first
WindowToolsInvoked(d, e, x) ==
    IF d.kind = "x11" THEN X11ToolsInvoked(d, e, x)
    ELSE IF d.kind = "wayland" THEN WaylandToolsInvoked(d, e, x)
    ELSE {}

\* C27: if a helper command that a window strategy's GetFocusedWindow depends
\* on is missing from PATH, that strategy reports IsAvailable = false (sway,
\* Hyprland, GNOME, KDE, X11), so the hybrid resolver never selects a
\* strategy whose tool is absent.
C27_MissingToolDisables ==
    UseWindow(wd) => \A x \in WindowQueries : WindowToolsInvoked(wd, env, x) \subseteq env.tools

-----------------------------------------------------------------------------
(* The GNOME strategy and its two bridges *)

\* gdbus ran, Shell.Eval answered "(true, ..." and the class is usable
\* (wayland/detector.go lines 249-276)
shellEvalAnswered(e, x) ==
    Runs(e, "gdbus", x.ok1) /\ x.ok2 /\ x.name1 # "" /\ x.name1 # "Unknown"

\* the bridges one getFocusedWindowGnome call runs, in order: gdbus is
\* executed at line 247 before anything else; getFocusedWindowXWayland is
\* entered at line 280 only past the returns of the gdbus block and only when
\* xprop was found
gnomeBridges(e, x) ==
    IF shellEvalAnswered(e, x) THEN << "gdbus" >>
    ELSE IF "xprop" \in e.tools THEN << "gdbus", "xprop" >>
    ELSE << "gdbus" >>

gnome == wd.kind = "wayland" /\ wd.compositor = "gnome"

\* C31: in the GNOME strategy the shell scripting bridge (gdbus Shell.Eval)
\* is always attempted first; the XWayland bridge (xprop) is attempted only
\* after the scripting bridge failed or yielded no valid application name;
\* and when that has happened and xprop is missing, DISPLAY is unset, or the
\* root window has no resolvable active window, GetFocusedWindow returns an
\* error rather than a window.  Stated for every query that can have given
\* the answer the strategy returned.
C31_GnomeBridgeOrder ==
    gnome =>
        \A x \in WindowQueries :
            firstWin # NoWindow /\ firstWin = WindowGetFocusedWindow(wd, env, x) =>
                /\ gnomeBridges(env, x)[1] = "gdbus"
                /\ Len(gnomeBridges(env, x)) > 1 =>
                      gnomeBridges(env, x)[2] = "xprop" /\ ~shellEvalAnswered(env, x)
                /\ /\ ~shellEvalAnswered(env, x)
                   /\ \/ "xprop" \notin env.tools
                      \/ ~env.display
                      \/ ~x.ok4
                   => ~firstWin.ok

\* the scripting bridge gave nothing and the XWayland bridge failed
C31_Witness ==
    /\ gnome
    /\ firstWin.reason = "GNOME window detection failed: xprop failed"
    /\ \E x \in WindowQueries :
          /\ firstWin = WindowGetFocusedWindow(wd, env, x)
          /\ gnomeBridges(env, x) = << "gdbus", "xprop" >>

-----------------------------------------------------------------------------
(* The detector without its sampler *)

\* C32: when input-device information is inaccessible, so that the sampler
\* cannot be started, process-detector initialization and NewDetector still
\* succeed, and GetActiveApp still ranks candidates, with an empty recency
\* table and so without any activity bonus, instead of failing.
C32_WorksWithoutSampler ==
    ~env.inputDevices =>
        /\ ~running
        /\ activePIDs = EmptyMap
        /\ procRes.ok =>
              LET pid == procRes.info.PID
              IN  \E fresh \in {0, freshBonus} :
                     procRes.info.Confidence =
                        baseScore
                        + (IF pid = findMyTerminal(env) THEN terminalBonus ELSE 0)
                        + (IF isAncestorProcess(env, pid) THEN ancestorBonus ELSE 0)
                        + fresh
        /\ procRes # NoResult /\ ~procRes.ok =>
              procRes.err.msg \in {"failed to scan processes", "no GUI applications detected"}

\* without a sampler the process path has answered with the browser
C32_Witness ==
    /\ ~env.inputDevices
    /\ pc = "return"
    /\ calls = << "process" >>
    /\ procRes.ok
    /\ procRes.info.PID = 2
    /\ appInfo.AppName = "firefox"

-----------------------------------------------------------------------------
(* Termination of the sampler *)

\* The goroutine is scheduled (weak fairness of the steps of
\* updateActivityFromCPU), and select chooses uniformly among its ready
\* cases, so a case that is ready again and again is taken in the end (strong
\* fairness of the stop case).
SamplerFairSpec ==
    /\ SamplerSpec
    /\ WF_vars(MonitorPs)
    /\ WF_vars(MonitorWrite)
    /\ SF_vars(MonitorExit)

\* C33: if the sampler was started, then once Close has been called the
\* sampler loop eventually exits (under fair scheduling): it performs at most
\* finitely many further ticks and never runs forever after the stop channel
\* is closed.  The loop ends by taking the stop case, or with the process
\* when the runtime stops it on the unsynchronised table access.
C33_SamplerExitsAfterClose ==
    (env.inputDevices /\ closeReturned) ~> (mpc \in {"exited", "fatal"})

\* the loop took one more tick after Close and then left through the stop case
C33_Witness ==
    /\ env.inputDevices
    /\ closeReturned
    /\ tickedAfterClose
    /\ mpc = "exited"

-----------------------------------------------------------------------------
(* parseWMClass, in the X11 and in the Wayland detector.  A string is a
   sequence of one-character strings. *)

MaxParseLen == 4

\* unicode.IsSpace, on the characters used here
Whitespace == {" ", "\t", "\n"}

RECURSIVE TrimLeft(_, _)
TrimLeft(s, cutset) ==
    IF s # << >> /\ Head(s) \in cutset THEN TrimLeft(Tail(s), cutset) ELSE s

RECURSIVE TrimRight(_, _)
TrimRight(s, cutset) ==
    IF s # << >> /\ s[Len(s)] \in cutset
    THEN TrimRight(SubSeq(s, 1, Len(s) - 1), cutset)
    ELSE s

\* strings.Trim(s, cutset)
Trim(s, cutset) == TrimRight(TrimLeft(s, cutset), cutset)

\* strings.TrimSpace(s)
TrimSpace(s) == Trim(s, Whitespace)

\* strings.Contains(s, sep) for a one-character sep
Contains(s, sep) == \E i \in DOMAIN s : s[i] = sep

\* strings.Split(s, sep) for a one-character sep
RECURSIVE Split(_, _)
Split(s, sep) ==
    IF ~Contains(s, sep) THEN << s >>
    ELSE LET i == CHOOSE i \in DOMAIN s : s[i] = sep /\ \A j \in 1..(i - 1) : s[j] # sep
         IN  << SubSeq(s, 1, i - 1) >> \o Split(SubSeq(s, i + 1, Len(s)), sep)

\* parseWMClass of the X11 detector
X11parseWMClass(output) ==
    LET parts == Split(output, "=")
    IN  IF Len(parts) < 2 THEN << >>
        ELSE LET classInfo == Trim(TrimSpace(parts[2]), {"\""})
                 classes == Split(classInfo, ",")
                 className == TrimSpace(classes[Len(classes)])
             IN  Trim(className, {"\"", " "})

\* parseWMClass of the Wayland detector
WaylandparseWMClass(output) ==
    IF Contains(output, "=")
    THEN LET parts == Split(output, "=")
             classInfo == Trim(TrimSpace(parts[2]), {"\""})
             classes == Split(classInfo, ",")
         IN  Trim(classes[Len(classes)], {"\"", " "})
    ELSE << >>

ParseAlphabet == {"a", "=", ",", "\"", " ", "\t"}

\* class and instance names as xprop prints them between quotes
ClassNames == { << "a" >>, << "a", "b" >>, << "a", " ", "b" >>, << "a", ".", "b" >> }

\* the line NAME(STRING) = "Instance", "ClassName", with or without the
\* newline xprop ends it with
WMClassLine(instance, className, newline) ==
    << "W", "(", "S", ")", " ", "=", " ", "\"" >> \o instance
    \o << "\"", ",", " ", "\"" >> \o className \o << "\"" >>
    \o (IF newline THEN << "\n" >> ELSE << >>)

ParseInputs ==
    UNION { [1..n -> ParseAlphabet] : n \in 0..MaxParseLen }
    \cup { WMClassLine(i, c, nl) : i \in ClassNames, c \in ClassNames, nl \in BOOLEAN }

ParseInit ==
    /\ DetInit(BareEnvs)
    /\ CfgInit({<< "", "" >>})
    /\ TrkInit
    /\ ImInit
    /\ \E s \in ParseInputs : parse = [NoParse EXCEPT !.input = s]

\* both functions are applied to the line
ParseWMClass ==
    /\ ~parse.done
    /\ parse' = [parse EXCEPT !.done = TRUE,
                              !.x11 = X11parseWMClass(parse.input),
                              !.wayland = WaylandparseWMClass(parse.input)]
    /\ UNCHANGED << detVars, cfgVars, trkVars, imVars >>

ParseNext == ParseWMClass

ParseSpec == ParseInit /\ [][ParseNext]_vars

\* C34: parseWMClass applied to NAME(STRING) = "Instance", "ClassName" returns
\* ClassName (the last comma-separated quoted token, without quotes or
\* surrounding spaces); applied to an input without "=" (the empty string
\* included) it returns the empty string; and the X11 and the Wayland
\* implementation agree on every input.
C34_ParseWMClassAgrees ==
    parse.done =>
        /\ \A i \in ClassNames, c \in ClassNames, nl \in BOOLEAN :
              parse.input = WMClassLine(i, c, nl) => parse.x11 = c /\ parse.wayland = c
        /\ ~Contains(parse.input, "=") => parse.x11 = << >> /\ parse.wayland = << >>
        /\ parse.x11 = parse.wayland

-----------------------------------------------------------------------------
(* Bonuses, carried-over records, idle time on Wayland *)

\* C35: a non-zero PID returned by findMyTerminal always satisfies
\* isAncestorProcess, so a candidate that receives the +10.0 terminal bonus
\* always also receives the +5.0 ancestor bonus: its score is at least 15.3,
\* never just 10.3.
C35_TerminalIsAncestor ==
    /\ findMyTerminal(env) # 0 => isAncestorProcess(env, findMyTerminal(env))
    /\ \A p \in DOMAIN knownProcesses :
          p = findMyTerminal(env) => scoreNow(p) >= 153
    /\ scanned /\ procRes.ok /\ procRes.info.PID = findMyTerminal(env)
          => procRes.info.Confidence >= 153

\* the terminal, seen by the scan and never sampled, is returned with 15.5
C35_Witness ==
    /\ scanned
    /\ procRes.ok
    /\ findMyTerminal(env) # 0
    /\ procRes.info.PID = findMyTerminal(env)
    /\ procRes.info.Confidence = 155

\* C36: the candidate the process detector's GetActiveApp returns was
\* observed and classified as a GUI application by the scan of that same
\* call (its record carries the time of that scan): a record carried over
\* from an earlier scan is never returned, whatever the spacing of the calls.
C36_NoCarriedOverAnswer ==
    scanned /\ procRes.ok => knownProcesses[procRes.info.PID] = now

\* C37: on Wayland the idle time reported is always 0, so every IdleInfo from
\* the Wayland strategy has IsIdle = false, for every compositor and every
\* outcome of the external commands; a poll cycle of the tracker on Wayland
\* is skipped only through IsLocked.  (The strategy is a function of the
\* environment, which never changes: it is examined before Start.)
C37_WaylandNeverIdle ==
    /\ tpc = "new" =>
       \A c \in Compositors \cup {"unknown"}, q \in IdleQueries :
          LET info == WaylandGetIdleInfo(WaylandNewDetector(env, c), env, q)
          IN  info.IdleTime = 0 /\ ~info.IsIdle /\ info.err = ""
    /\ wd.kind = "wayland" =>
          /\ pc = "idleReturn" => idleOut.IdleTime = 0 /\ ~idleOut.IsIdle
          /\ ~idleInfo.IsIdle
          /\ tpc = "select" /\ cycle.calls = << "GetIdleInfo" >> => idleInfo.IsLocked

\* a cycle on sway was skipped because the screen was locked
C37_Witness ==
    /\ wd.kind = "wayland"
    /\ tpc = "select"
    /\ cycle.calls = << "GetIdleInfo" >>
    /\ idleInfo.IsLocked
    /\ ~idleInfo.IsIdle
    /\ idleInfo.IdleTime = 0

-----------------------------------------------------------------------------
(* What the tracker persists, and how it stops *)

\* C38: every FocusEvent the tracker persists, the one of the immediate
\* first poll at Start included, has a non-empty AppName, IsIdle = false,
\* IsLocked = false, and Duration equal to the configured poll interval in
\* seconds.
C38_PersistedEventShape ==
    /\ cycle.persisted =>
          /\ cycle.event.AppName # ""
          /\ ~cycle.event.IsIdle
          /\ ~cycle.event.IsLocked
          /\ cycle.event.Duration = cfg.PollInterval
    /\ ~cycle.persisted => cycle.event = NoEvent

\* an event was written under ACTIONSUM_POLL_INTERVAL=30
C38_Witness ==
    /\ cycle.persisted
    /\ cycle.event.AppName = "firefox"
    /\ cycle.event.Duration = 30
    /\ cfg.PollInterval = 30

\* C39: for any interleaving of Start, context cancellation and one or more
\* Stop calls, the tracker's stop channel is closed at most once, so no Stop
\* call panics (and Start returns after a Stop or a cancellation).
C39_StopNeverPanics ==
    /\ Cardinality({ i \in DOMAIN stopCalls : stopCalls[i] = "closed" }) <= 1
    /\ \A i \in DOMAIN stopCalls : stopCalls[i] # "panic"
    /\ tpc # "crashed"

=============================================================================
